---- MODULE Spec2Model ----
(***************************************************************************)
(* Model of the update-checking core of cosmic-applet-arch:                *)
(*   - BasicResultWithHistory and UpdatesState (the UI-side result cache), *)
(*   - the updates worker (tick / force-refresh scheduler, its passes and  *)
(*     per-source caches),                                                 *)
(*   - AsyncFileLock and check_pacman_updates_online_exclusive.            *)
(***************************************************************************)
EXTENDS Integers, Sequences, FiniteSets, TLC

(***************************************************************************)
(* Bounds of the model.                                                    *)
(***************************************************************************)
\* longest list of updates a check returns
MaxLen == 1
\* latest timestamp Local::now() returns
MaxTime == 1
\* largest configured online_check_period
MaxPeriod == 2
\* regular ticks of the interval timer that are followed
MaxTicks == 4
\* force-refresh requests the user makes
MaxForce == 2
\* Online pacman checks each applet instance starts
MaxChecks == 2
\* messages the app handles before the bounced first message comes back
MaxOvertake == 1
\* longest timeout duration, in units of time
MaxDuration == 2

(***************************************************************************)
(* Data.                                                                   *)
(***************************************************************************)
\* core/config.rs UpdateType: the three sources.
Sources == {"pacman", "aur", "devel"}

\* A Vec of updates: n update records, n <= MaxLen.
Vals == {[i \in 1..n |-> i] : n \in 0..MaxLen}

\* Result<T, E>
Ok(v) == [tag |-> "Ok", value |-> v]
Err(e) == [tag |-> "Err", error |-> e]
\* The results a check hands to the app. The handlers never look at an error's
\* text, so one error stands for all of them.
Results == {Ok(v) : v \in Vals} \cup {Err("Other")}

\* Option<T>
NoneOpt == [tag |-> "None"]
Some(x) == [tag |-> "Some", some |-> x]
OptResults == {NoneOpt} \cup {Some(r) : r \in Results}

\* BasicResultWithHistory<T>
HOk(v) == [tag |-> "Ok", value |-> v]
HError == [tag |-> "Error"]
HErrorWithHistory(v) == [tag |-> "ErrorWithHistory", last_value |-> v]

(***************************************************************************)
(* BasicResultWithHistory: the history-preserving result.                  *)
(***************************************************************************)
\* A start that takes a failure for an empty list of updates.
new_from_result_as_success(value) ==
    IF value.tag = "Ok" THEN HOk(value.value) ELSE HOk(<<>>)

new_from_result(value) ==
    IF value.tag = "Ok" THEN HOk(value.value) ELSE HError

\* A variant that forgets the last value on failure.
replace_dropping_history(self, value) ==
    IF value.tag = "Ok" THEN HOk(value.value) ELSE HError

\* A variant that keeps the last value for one failure only.
replace_aging_once(self, value) ==
    IF value.tag = "Ok" THEN HOk(value.value)
    ELSE IF self.tag = "Ok" THEN HErrorWithHistory(self.value)
    ELSE HError

replace_with_result_preserving_history(self, value) ==
    CASE self.tag = "Ok" ->
            IF value.tag = "Ok" THEN HOk(value.value)
            ELSE HErrorWithHistory(self.value)
      [] self.tag = "Error" ->
            IF value.tag = "Ok" THEN HOk(value.value)
            ELSE HError
      [] self.tag = "ErrorWithHistory" ->
            IF value.tag = "Ok" THEN HOk(value.value)
            ELSE HErrorWithHistory(self.last_value)

\* A variant that treats a missing result as a failure.
replace_with_option_none_as_error(self, value) ==
    IF value.tag = "None"
    THEN replace_with_result_preserving_history(self, Err("Other"))
    ELSE replace_with_result_preserving_history(self, value.some)

replace_with_option_result_preserving_history(self, value) ==
    IF value.tag = "None" THEN self
    ELSE CASE self.tag = "Ok" ->
                 IF value.some.tag = "Ok" THEN HOk(value.some.value)
                 ELSE HErrorWithHistory(self.value)
           [] self.tag = "Error" ->
                 IF value.some.tag = "Ok" THEN HOk(value.some.value)
                 ELSE HError
           [] self.tag = "ErrorWithHistory" ->
                 IF value.some.tag = "Ok" THEN HOk(value.some.value)
                 ELSE HErrorWithHistory(self.last_value)

\* A length that counts a value held in the Ok state only.
len_of_ok_only(self) ==
    IF self.tag = "Ok" THEN Len(self.value) ELSE 0

len(self) ==
    CASE self.tag = "Ok" -> Len(self.value)
      [] self.tag = "ErrorWithHistory" -> Len(self.last_value)
      [] OTHER -> 0

has_error(self) == self.tag \in {"Error", "ErrorWithHistory"}

(***************************************************************************)
(* UpdatesState: the UI-side state.                                        *)
(***************************************************************************)
UpdatesInit == [state |-> "Init"]

Running(t, p, a, d, r) ==
    [state |-> "Running", last_checked_online |-> t,
     pacman |-> p, aur |-> a, devel |-> d, refreshing |-> r]

get_refreshing(self) ==
    IF self.state = "Init" THEN TRUE ELSE self.refreshing

\* A set_refreshing that leaves the state as it is.
set_refreshing_unchanged(self) == self

set_refreshing(self) ==
    IF self.state = "Running"
    THEN Running(self.last_checked_online, self.pacman, self.aur, self.devel, TRUE)
    ELSE UpdatesInit

\* updates: [Sources -> Results]
handle_online_updates(self, updates, update_time) ==
    IF self.state = "Init"
    THEN Running(update_time,
                 new_from_result(updates["pacman"]),
                 new_from_result(updates["aur"]),
                 new_from_result(updates["devel"]),
                 FALSE)
    ELSE Running(update_time,
                 replace_with_result_preserving_history(self.pacman, updates["pacman"]),
                 replace_with_result_preserving_history(self.aur, updates["aur"]),
                 replace_with_result_preserving_history(self.devel, updates["devel"]),
                 FALSE)

\* A handler of Offline results that ends the refreshing.
handle_offline_updates_not_refreshing(self, updates) ==
    IF self.state = "Init"
    THEN self
    ELSE Running(self.last_checked_online,
                 replace_with_option_result_preserving_history(self.pacman, updates["pacman"]),
                 replace_with_option_result_preserving_history(self.aur, updates["aur"]),
                 replace_with_option_result_preserving_history(self.devel, updates["devel"]),
                 FALSE)

\* updates: [Sources -> OptResults]
handle_offline_updates(self, updates) ==
    IF self.state = "Init"
    THEN self
    ELSE Running(self.last_checked_online,
                 replace_with_option_result_preserving_history(self.pacman, updates["pacman"]),
                 replace_with_option_result_preserving_history(self.aur, updates["aur"]),
                 replace_with_option_result_preserving_history(self.devel, updates["devel"]),
                 self.refreshing)

\* A total that counts every source, excluded or not.
total_unfiltered(self, exclude_from_count) ==
    IF self.state # "Running" THEN 0
    ELSE len(self.aur) + len(self.devel) + len(self.pacman)

\* total_filtered: the fold over {Aur, Devel, Pacman} \ exclude_from_count.
total_filtered(self, exclude_from_count) ==
    IF self.state # "Running" THEN 0
    ELSE LET total_updates(u) == CASE u = "aur" -> len(self.aur)
                                   [] u = "devel" -> len(self.devel)
                                   [] u = "pacman" -> len(self.pacman)
             fold[S \in SUBSET Sources] ==
                IF S = {} THEN 0
                ELSE LET e == CHOOSE e \in S : TRUE
                     IN fold[S \ {e}] + total_updates(e)
         IN fold[{"aur", "devel", "pacman"} \ exclude_from_count]

\* UpdatesState::has_errors
has_errors(self) ==
    IF self.state = "Init" THEN FALSE
    ELSE ~(self.pacman.tag = "Ok" /\ self.aur.tag = "Ok" /\ self.devel.tag = "Ok")

\* The HistoryResult of source s, or "no HistoryResult yet" in Init.
Hist(self, s) ==
    IF self.state = "Init" THEN [tag |-> "Absent"]
    ELSE CASE s = "pacman" -> self.pacman
           [] s = "aur" -> self.aur
           [] s = "devel" -> self.devel

(***************************************************************************)
(* State.                                                                  *)
(***************************************************************************)
VARIABLES
    \* -- UI side (updates_state.rs)
    updates,              \* UpdatesState
    msg,                  \* the message the UI handled last
    last_success,         \* per source: the last success applied to its HistoryResult
    bounce,               \* the Task returned by handle_online_updates, not yet run
    \* -- updates worker (updates_worker.rs)
    online_check_period,  \* config.online_check_period
    counter,              \* cycle counter
    cache_state,          \* per source: Option<cache>, a cache named by the pass that made it
    notify,               \* permits refresh_pressed_notifier holds (a Notify holds 0 or 1)
    unserviced,           \* a force-refresh was requested since the last forced pass began
    pc,                   \* "select", or the pass in flight: "online", "offline", "forced"
    fut,                  \* per source: the state of its check in the current / last pass
    emitted,              \* the message sent to the app by the current loop iteration
    last_branch,          \* the select! branch taken last: "none", "tick", "forced",
                          \* "tick_after_forced" (the first tick after a forced pass)
    last_check,           \* the CheckType of the pass started last: "none", "Online", "Offline"
    ticks,                \* regular ticks so far
    forces,               \* force-refresh requests so far
    passes,               \* Online passes started so far (regular and forced)
    \* ---- the checkupdates lock file, shared by the applet instances ----
    task,                 \* per instance: where its pacman check is
    attempts,             \* per instance: Online pacman checks started so far
    exit,                 \* per instance: how its last Online pacman check ended
    thr,                  \* per flock call: the state of its blocking thread
    holders,              \* the open file descriptions holding the flock
    child,                \* per Online check: the state of its checkupdates process
    \* ---- calls of the functions that hold no state ----
    call,                 \* the function called last and its arguments
    ret                   \* what it returned

ui_vars == <<updates, msg, last_success, bounce>>
worker_vars == <<online_check_period, counter, cache_state, notify, unserviced, pc, fut,
                 emitted, last_branch, last_check, ticks, forces, passes>>
lock_vars == <<task, attempts, exit, thr, holders, child>>
fn_vars == <<call, ret>>
vars == <<ui_vars, worker_vars, lock_vars, fn_vars>>

NoMsg == [type |-> "NoMsg"]

(***************************************************************************)
(* subscription/core.rs: the fan-in of a pass.                             *)
(***************************************************************************)
\* update: Result<(U, C), E>
extract_cache_and_update(update) ==
    IF update.tag = "Ok"
    THEN [cache |-> Some(update.value.cache), update |-> Ok(update.value.update)]
    ELSE [cache |-> NoneOpt, update |-> update]

\* The joined results with an early return on the first error.
get_updates_online_try(checks) ==
    IF \A s \in Sources : checks[s].tag = "Ok"
    THEN [updates |-> [s \in Sources |-> extract_cache_and_update(checks[s]).update],
          cache |-> [s \in Sources |-> extract_cache_and_update(checks[s]).cache]]
    ELSE LET bad == CHOOSE s \in Sources : checks[s].tag = "Err"
         IN [updates |-> [s \in Sources |-> checks[bad]],
             cache |-> [s \in Sources |-> NoneOpt]]

\* checks: per source, the Result the source's flat_timeout future returned.
get_updates_online(checks) ==
    [updates |-> [s \in Sources |-> extract_cache_and_update(checks[s]).update],
     cache |-> [s \in Sources |-> extract_cache_and_update(checks[s]).cache]]

\* Runs every check only when all three caches are there.
get_updates_offline_all(cache, checks) ==
    [s \in Sources |->
        IF \A x \in Sources : cache[x].tag = "Some" THEN Some(checks[s]) ELSE NoneOpt]

\* cache: CacheState; checks: per source, the Result its Offline check returns
\* when it is run (async_map runs it only on Some).
get_updates_offline(cache, checks) ==
    [s \in Sources |-> IF cache[s].tag = "Some" THEN Some(checks[s]) ELSE NoneOpt]

(***************************************************************************)
(* UI side: the app's update() on the worker's messages (SpecUI).          *)
(***************************************************************************)
UIInit ==
    /\ updates = UpdatesInit
    /\ msg = NoMsg
    /\ last_success = [s \in Sources |-> NoneOpt]
    /\ bounce = NoneOpt

\* Local::now() never runs backwards.
Now == IF updates.state = "Running" THEN updates.last_checked_online ELSE 0

\* The caches a worker can hold: each source's cache is there or not.
CacheStates == [Sources -> {NoneOpt, Some(1)}]

\* What the Offline checks return under a cache state. A check that is not
\* run returns nothing: its entry is a placeholder nobody reads.
ChecksFor(cache) ==
    {c \in [Sources -> Results] :
        \A s \in Sources : cache[s].tag = "None" => c[s] = Err("Other")}

\* The bounced message is still on its way and can be overtaken.
CanOvertake == bounce.tag = "Some" => bounce.some.overtaken < MaxOvertake

Overtake ==
    IF bounce.tag = "Some"
    THEN Some([bounce.some EXCEPT !.overtaken = @ + 1])
    ELSE bounce

ApplyOnline(u, t) ==
    /\ updates' = handle_online_updates(updates, u, t)
    /\ msg' = [type |-> "Online", updates |-> u, time |-> t]
    /\ last_success' = [s \in Sources |->
            IF u[s].tag = "Ok" THEN Some(u[s].value) ELSE last_success[s]]
    /\ UNCHANGED <<worker_vars, lock_vars, fn_vars>>

\* Message::RefreshedUpdatesOnline from the worker.
UIOnline ==
    /\ CanOvertake
    /\ \E u \in [Sources -> Results], t \in Now..MaxTime :
        /\ ApplyOnline(u, t)
        /\ bounce' = IF updates.state = "Init"
                     THEN Some([updates |-> u, time |-> t, overtaken |-> 0])
                     ELSE Overtake

\* The bounced copy of the first Online message.
UIBounced ==
    /\ bounce.tag = "Some"
    /\ ApplyOnline(bounce.some.updates, bounce.some.time)
    /\ bounce' = NoneOpt

\* Message::RefreshedUpdatesOffline: the bundle get_updates_offline built.
UIOffline ==
    /\ CanOvertake
    /\ \E cache \in CacheStates : \E checks \in ChecksFor(cache) :
        LET m == get_updates_offline(cache, checks) IN
        /\ updates' = handle_offline_updates(updates, m)
        /\ msg' = [type |-> "Offline", updates |-> m, cache |-> cache]
        /\ last_success' = [s \in Sources |->
                IF updates.state = "Running" /\ m[s].tag = "Some" /\ m[s].some.tag = "Ok"
                THEN Some(m[s].some.value) ELSE last_success[s]]
        /\ bounce' = Overtake
        /\ UNCHANGED <<worker_vars, lock_vars, fn_vars>>

\* Message::ForceGetUpdates, the app's part: set_refreshing.
UISetRefreshing ==
    /\ CanOvertake
    /\ updates' = set_refreshing(updates)
    /\ msg' = [type |-> "SetRefreshing"]
    /\ bounce' = Overtake
    /\ UNCHANGED <<last_success, worker_vars, lock_vars, fn_vars>>

(***************************************************************************)
(* The updates worker: raw_updates_worker (Spec).                          *)
(***************************************************************************)
WorkerInit ==
    /\ online_check_period \in 0..MaxPeriod
    /\ counter = 0
    /\ cache_state = [s \in Sources |-> NoneOpt]
    /\ notify = 0
    /\ unserviced = FALSE
    /\ pc = "select"
    /\ fut = [s \in Sources |-> "idle"]
    /\ emitted = NoMsg
    /\ last_branch = "none"
    /\ last_check = "none"
    /\ ticks = 0
    /\ forces = 0
    /\ passes = 0

\* match counter { 0 => CheckType::Online, _ => CheckType::Offline }
check_type(c) == IF c = 0 THEN "Online" ELSE "Offline"

\* counter += 1; if counter > online_check_period { counter = 0 }
next_counter(c, period) ==
    IF c + 1 > period THEN 0 ELSE c + 1

\* A force-refresh that resets the counter to its start.
counter_reset_to_start(c) == 0

\* counter = 1 in the notified branch
counter_after_force(c) == 1

\* The Result a source's check future resolved to; n names the remote state
\* it saw: the pass for an Online check, the cache used for an Offline one.
CheckResult(f, n) ==
    CASE f = "ok" -> Ok(n)
      [] f = "err" -> Err("Other")
      [] f = "timeout" -> Err("Timeout")

OnlineChecks ==
    [s \in Sources |->
        IF fut[s] = "ok" THEN Ok([update |-> passes, cache |-> passes])
        ELSE CheckResult(fut[s], passes)]

OfflineChecks ==
    [s \in Sources |->
        IF cache_state[s].tag = "Some" THEN CheckResult(fut[s], cache_state[s].some)
        ELSE Err("Other")]

Pending == {s \in Sources : fut[s] = "pending"}

UpdateMsg(check, u) == [type |-> "CheckUpdatesMsg", check |-> check, updates |-> u]
ErrorMsg(e) == [type |-> "CheckUpdatesErrorsMsg", error_string |-> e]

\* A notify that adds a permit per call.
notify_one_counting(permits) == permits + 1

\* A notify that only wakes a task already waiting in notified().
notify_waiters_only(permits) == permits

\* Notify::notify_one with no task waiting: the permit is stored, and a
\* Notify stores one permit at most.
notify_one(permits) == 1

\* app.rs handle_force_get_updates: refresh_pressed_notifier.notify_one()
ForceGetUpdates ==
    /\ forces < MaxForce
    /\ forces' = forces + 1
    /\ notify' = notify_one(notify)
    /\ unserviced' = TRUE
    /\ UNCHANGED <<ui_vars, lock_vars, fn_vars, online_check_period, counter, cache_state, pc, fut, emitted,
                   last_branch, last_check, ticks, passes>>

\* select!: _ = interval.tick()
Tick ==
    /\ pc = "select"
    /\ ticks < MaxTicks
    /\ ticks' = ticks + 1
    /\ counter' = next_counter(counter, online_check_period)
    /\ last_branch' = IF last_branch = "forced" THEN "tick_after_forced" ELSE "tick"
    /\ last_check' = check_type(counter)
    /\ emitted' = NoMsg
    /\ IF check_type(counter) = "Online"
       THEN /\ pc' = "online"
            /\ passes' = passes + 1
            /\ fut' = [s \in Sources |-> "pending"]
       ELSE /\ pc' = "offline"
            /\ passes' = passes
            /\ fut' = [s \in Sources |->
                        IF cache_state[s].tag = "Some" THEN "pending" ELSE "none"]
    /\ UNCHANGED <<ui_vars, lock_vars, fn_vars, online_check_period, cache_state, notify, unserviced, forces>>

\* select!: _ = notified  (the app has forced an update)
ForcedRefresh ==
    /\ pc = "select"
    /\ notify > 0
    /\ notify' = notify - 1
    /\ unserviced' = FALSE
    /\ counter' = counter_after_force(counter)
    /\ last_branch' = "forced"
    /\ last_check' = "Online"
    /\ emitted' = NoMsg
    /\ pc' = "forced"
    /\ passes' = passes + 1
    /\ fut' = [s \in Sources |-> "pending"]
    /\ UNCHANGED <<ui_vars, lock_vars, fn_vars, online_check_period, cache_state, ticks, forces>>

FutStep(s, to) ==
    /\ fut[s] = "pending"
    /\ fut' = [fut EXCEPT ![s] = to]
    /\ UNCHANGED <<ui_vars, lock_vars, fn_vars, online_check_period, counter, cache_state, notify, unserviced, pc, emitted,
                   last_branch, last_check, ticks, forces, passes>>

\* A source's check returns Ok.
CheckOk(s) == pc \in {"online", "offline", "forced"} /\ FutStep(s, "ok")

\* A source's check returns its own error.
CheckErr(s) == pc \in {"online", "offline", "forced"} /\ FutStep(s, "err")

\* The per-source timeout of an Online check expires.
CheckTimeout(s) == pc \in {"online", "forced"} /\ FutStep(s, "timeout")

\* A send after which the pass is started over.
after_send_in_pass(delivered) == "online"

\* A send whose failure ends the worker.
after_send_or_exit(delivered) == IF delivered THEN "select" ELSE "exited"

\* send_update / send_update_error: tx.send(..).await.unwrap_or_else(eprintln).
\* A failed send is printed and the worker goes on with its loop.
after_send(delivered) == "select"

\* The message handed to the channel, and whether the channel took it.
send(m, delivered) ==
    [x \in DOMAIN m \cup {"delivered"} |-> IF x = "delivered" THEN delivered ELSE m[x]]

\* check_for_updates_online_and_send_to_app: the join, send_update and the
\* new cache state.
OnlineDone ==
    /\ pc = "online"
    /\ Pending = {}
    /\ LET r == get_updates_online(OnlineChecks) IN
        /\ cache_state' = r.cache
        /\ \E delivered \in BOOLEAN :
            /\ emitted' = send(UpdateMsg("Online", r.updates), delivered)
            /\ pc' = after_send(delivered)
    /\ UNCHANGED <<ui_vars, lock_vars, fn_vars, online_check_period, counter, notify, unserviced, fut, last_branch, last_check, ticks,
                   forces, passes>>

\* The notified branch, Ok arm: the new cache and send_update.
ForcedDone ==
    /\ pc = "forced"
    /\ Pending = {}
    /\ LET r == get_updates_online(OnlineChecks) IN
        /\ cache_state' = r.cache
        /\ \E delivered \in BOOLEAN :
            /\ emitted' = send(UpdateMsg("Online", r.updates), delivered)
            /\ pc' = after_send(delivered)
    /\ UNCHANGED <<ui_vars, lock_vars, fn_vars, online_check_period, counter, notify, unserviced, fut, last_branch, last_check, ticks,
                   forces, passes>>

\* The Offline arm of a tick, Ok arm: send_update.
OfflineDone ==
    /\ pc = "offline"
    /\ Pending = {}
    /\ \E delivered \in BOOLEAN :
            /\ emitted' = send(UpdateMsg("Offline", get_updates_offline(cache_state, OfflineChecks)), delivered)
            /\ pc' = after_send(delivered)
    /\ UNCHANGED <<ui_vars, lock_vars, fn_vars, online_check_period, counter, cache_state, notify, unserviced, fut, last_branch, last_check,
                   ticks, forces, passes>>

Cancel == [s \in Sources |-> IF fut[s] = "pending" THEN "cancelled" ELSE fut[s]]

\* The timeout around the whole forced pass expires: Err arm of the notified branch.
ForcedTimeout ==
    /\ pc = "forced"
    /\ Pending # {}
    /\ cache_state' = [s \in Sources |-> NoneOpt]
    /\ \E delivered \in BOOLEAN :
            /\ emitted' = send(ErrorMsg("Timeout"), delivered)
            /\ pc' = after_send(delivered)
    /\ fut' = Cancel
    /\ UNCHANGED <<ui_vars, lock_vars, fn_vars, online_check_period, counter, notify, unserviced, last_branch, last_check, ticks, forces,
                   passes>>

\* The timeout around the whole Offline pass expires: Err arm, then continue.
OfflineTimeout ==
    /\ pc = "offline"
    /\ Pending # {}
    /\ \E delivered \in BOOLEAN :
            /\ emitted' = send(ErrorMsg("Timeout"), delivered)
            /\ pc' = after_send(delivered)
    /\ fut' = Cancel
    /\ UNCHANGED <<ui_vars, lock_vars, fn_vars, online_check_period, counter, cache_state, notify, unserviced, last_branch, last_check,
                   ticks, forces, passes>>

(***************************************************************************)
(* AsyncFileLock and check_pacman_updates_online_exclusive, run by two     *)
(* applet instances that share the lock file (SpecLock).                   *)
(***************************************************************************)
Instances == {"A", "B"}

\* One flock call per Online pacman check: <<instance, number of the check>>.
Threads == Instances \X (1..MaxChecks)

\* The flock call of an instance's current check.
Cur(i) == <<i, attempts[i]>>

LockInit ==
    /\ task = [i \in Instances |-> "idle"]
    /\ attempts = [i \in Instances |-> 0]
    /\ exit = [i \in Instances |-> "none"]
    /\ thr = [t \in Threads |-> "unborn"]
    /\ holders = {}
    /\ child = [t \in Threads |-> "none"]

\* A shared lock: granted whoever holds the file.
flock_LockShared(h) == TRUE

\* rustix::fs::flock(&file, FlockOperation::LockExclusive) returns once no
\* other open file description holds the lock.
flock_LockExclusive(h) == h = {}

\* A guard whose drop leaves the lock in place.
drop_keeping_lock(h, t) == h

\* impl Drop for AsyncFileLock: flock(&self.0, FlockOperation::Unlock)
AsyncFileLock_drop(h, t) == h \ {t}

\* The task of instance i awaits the flock call t.
Awaited(t) == task[t[1]] = "waiting" /\ Cur(t[1]) = t

\* check_pacman_updates_online_exclusive is polled for the first time, in the
\* Online pass of a regular tick or of a force-refresh:
\* AsyncFileLock::new opens the lock file and hands flock to a blocking thread.
StartOnline(i) ==
    /\ task[i] = "idle"
    /\ attempts[i] < MaxChecks
    /\ attempts' = [attempts EXCEPT ![i] = @ + 1]
    /\ \/ /\ task' = [task EXCEPT ![i] = "waiting"]
          /\ thr' = [thr EXCEPT ![<<i, attempts[i] + 1>>] = "blocked"]
          /\ exit' = [exit EXCEPT ![i] = "none"]
       \/ \* the data directory or the lock file cannot be opened
          /\ exit' = [exit EXCEPT ![i] = "err_lock"]
          /\ UNCHANGED <<task, thr>>
    /\ UNCHANGED <<ui_vars, worker_vars, fn_vars, holders, child>>

\* The kernel grants a blocked flock call.
Grant(t) ==
    /\ thr[t] = "blocked"
    /\ flock_LockExclusive(holders)
    /\ holders' = holders \cup {t}
    /\ thr' = [thr EXCEPT ![t] = "granted"]
    /\ UNCHANGED <<ui_vars, worker_vars, fn_vars, task, attempts, exit, child>>

\* AsyncFileLock::new returns the guard and check_pacman_updates_online
\* spawns checkupdates.
Acquired(i) ==
    /\ task[i] = "waiting"
    /\ thr[Cur(i)] = "granted"
    /\ thr' = [thr EXCEPT ![Cur(i)] = "guard"]
    /\ task' = [task EXCEPT ![i] = "running"]
    /\ child' = [child EXCEPT ![Cur(i)] = "running"]
    /\ UNCHANGED <<ui_vars, worker_vars, fn_vars, attempts, exit, holders>>

\* checkupdates exits and the check returns Ok or Err: _guard is dropped.
ToolExit(i) ==
    /\ task[i] = "running"
    /\ child[Cur(i)] = "running"
    /\ child' = [child EXCEPT ![Cur(i)] = "exited"]
    /\ \E r \in {"ok", "err"} : exit' = [exit EXCEPT ![i] = r]
    /\ holders' = AsyncFileLock_drop(holders, Cur(i))
    /\ thr' = [thr EXCEPT ![Cur(i)] = "closed"]
    /\ task' = [task EXCEPT ![i] = "idle"]
    /\ UNCHANGED <<ui_vars, worker_vars, fn_vars, attempts>>

\* flat_timeout expires while the check still waits for the lock: the future
\* is dropped, the blocking thread stays in flock.
TimeoutWaiting(i) ==
    /\ task[i] = "waiting"
    /\ task' = [task EXCEPT ![i] = "idle"]
    /\ exit' = [exit EXCEPT ![i] = "timeout_waiting"]
    /\ UNCHANGED <<ui_vars, worker_vars, fn_vars, attempts, thr, holders, child>>

\* flat_timeout expires while checkupdates runs: the future and with it
\* _guard are dropped; the process is not killed (no kill_on_drop).
TimeoutRunning(i) ==
    /\ task[i] = "running"
    /\ task' = [task EXCEPT ![i] = "idle"]
    /\ exit' = [exit EXCEPT ![i] = "timeout_running"]
    /\ holders' = AsyncFileLock_drop(holders, Cur(i))
    /\ thr' = [thr EXCEPT ![Cur(i)] = "closed"]
    /\ UNCHANGED <<ui_vars, worker_vars, fn_vars, attempts, child>>

\* The flock call of a dropped check returns: its File goes to a JoinHandle
\* nobody awaits and is closed, which gives the lock back.
OrphanClose(t) ==
    /\ thr[t] = "granted"
    /\ ~Awaited(t)
    /\ holders' = holders \ {t}
    /\ thr' = [thr EXCEPT ![t] = "closed"]
    /\ UNCHANGED <<ui_vars, worker_vars, fn_vars, task, attempts, exit, child>>

\* A checkupdates process whose check was dropped runs to its end.
StrayExit(t) ==
    /\ child[t] = "running"
    /\ ~(task[t[1]] = "running" /\ Cur(t[1]) = t)
    /\ child' = [child EXCEPT ![t] = "exited"]
    /\ UNCHANGED <<ui_vars, worker_vars, fn_vars, task, attempts, exit, thr, holders>>

\* The pacman check of an Offline pass: checkupdates --nosync, no lock.
StartOffline(i) ==
    /\ task[i] = "idle"
    /\ task' = [task EXCEPT ![i] = "offline"]
    /\ UNCHANGED <<ui_vars, worker_vars, fn_vars, attempts, exit, thr, holders, child>>

OfflineExit(i) ==
    /\ task[i] = "offline"
    /\ task' = [task EXCEPT ![i] = "idle"]
    /\ UNCHANGED <<ui_vars, worker_vars, fn_vars, attempts, exit, thr, holders, child>>

(***************************************************************************)
(* get_updates_online of instance A: the join of the three Online checks,  *)
(* the pacman check being the one that takes the lock file (SpecJoin).     *)
(***************************************************************************)
\* A flock called on the executor's own thread: nothing else is polled while
\* the call is blocked.
flock_on_executor(flock_call) == flock_call # "blocked"

\* tokio::task::spawn_blocking: flock runs on a thread of its own, so the
\* executor goes on polling whatever state the call is in.
spawn_blocking(flock_call) == TRUE

\* An Online pass of instance A starts: join! polls the three checks, and
\* check_pacman_updates_online_exclusive hands flock to a blocking thread.
JoinStart ==
    /\ pc = "select"
    /\ task["A"] = "idle"
    /\ attempts["A"] < MaxChecks
    /\ pc' = "online"
    /\ passes' = passes + 1
    /\ last_check' = "Online"
    /\ emitted' = NoMsg
    /\ fut' = [s \in Sources |-> IF s = "pacman" THEN "exclusive" ELSE "pending"]
    /\ attempts' = [attempts EXCEPT !["A"] = @ + 1]
    /\ \/ /\ task' = [task EXCEPT !["A"] = "waiting"]
          /\ thr' = [thr EXCEPT ![<<"A", attempts["A"] + 1>>] = "blocked"]
          /\ exit' = [exit EXCEPT !["A"] = "none"]
       \/ \* the data directory or the lock file cannot be opened
          /\ exit' = [exit EXCEPT !["A"] = "err_lock"]
          /\ UNCHANGED <<task, thr>>
    /\ UNCHANGED <<ui_vars, fn_vars, holders, child, online_check_period, counter,
                   cache_state, notify, unserviced, last_branch, ticks, forces>>

\* The AUR or the devel check of the pass is polled to its end: it returns,
\* or its flat_timeout expires.
JoinCheck(s) ==
    /\ s \in {"aur", "devel"}
    /\ pc = "online"
    /\ spawn_blocking(thr[Cur("A")])
    /\ \/ CheckOk(s)
       \/ CheckErr(s)
       \/ CheckTimeout(s)

\* What the three futures of the join resolved to, the pacman check's being
\* how check_pacman_updates_online_exclusive under flat_timeout ended.
JoinChecks ==
    LET f == [fut EXCEPT !["pacman"] =
                CASE exit["A"] = "ok" -> "ok"
                  [] exit["A"] \in {"timeout_waiting", "timeout_running"} -> "timeout"
                  [] OTHER -> "err"]
    IN [s \in Sources |->
            IF f[s] = "ok" THEN Ok([update |-> passes, cache |-> passes])
            ELSE CheckResult(f[s], passes)]

\* The three checks have ended: the join returns, the bundle is sent and the
\* caches are replaced.
JoinDone ==
    /\ pc = "online"
    /\ task["A"] = "idle"
    /\ fut["aur"] # "pending"
    /\ fut["devel"] # "pending"
    /\ LET r == get_updates_online(JoinChecks) IN
        /\ cache_state' = r.cache
        /\ \E delivered \in BOOLEAN :
            /\ emitted' = send(UpdateMsg("Online", r.updates), delivered)
            /\ pc' = after_send(delivered)
    /\ UNCHANGED <<ui_vars, lock_vars, fn_vars, online_check_period, counter, notify,
                   unserviced, fut, last_branch, last_check, ticks, forces, passes>>

(***************************************************************************)
(* The functions that hold no state, called on every input (SpecFn).       *)
(***************************************************************************)
NoCall == [fn |-> "none"]

FnInit ==
    /\ call = NoCall
    /\ ret = NoCall

\* TimeoutError<E>
TimeoutError_Timeout == [kind |-> "Timeout"]
TimeoutError_Other(e) == [kind |-> "Other", error |-> e]

\* The errors an operation returns; one of them reads like the timeout's text.
OpErrors == {"Other", "Timeout occurred"}

\* The futures flat_timeout is given: one that never completes, or one that
\* completes after `at` units of time with a Result.
Futures ==
    {[completes |-> FALSE, at |-> 0, result |-> Err("Other")]}
    \cup {[completes |-> TRUE, at |-> a, result |-> r] :
            a \in 0..(MaxDuration + 1),
            r \in {Ok(v) : v \in Vals} \cup {Err(e) : e \in OpErrors}}

\* tokio::time::timeout(duration, f): f is polled before the deadline is
\* looked at, so a future that is ready at the deadline still returns.
timeout(duration, f) ==
    IF f.completes /\ f.at <= duration THEN Ok(f.result) ELSE Err("Elapsed")

\* A wrapper that reports every failure as a timeout.
flat_timeout_any_error(duration, f) ==
    LET res == timeout(duration, f) IN
    IF res.tag = "Ok" /\ res.value.tag = "Ok"
    THEN Ok(res.value.value)
    ELSE Err(TimeoutError_Timeout)

flat_timeout(duration, f) ==
    LET res == IF timeout(duration, f).tag = "Err"
               THEN Err(TimeoutError_Timeout)
               ELSE timeout(duration, f)
    IN CASE res.tag = "Ok" /\ res.value.tag = "Err" ->
                Err(TimeoutError_Other(res.value.error))
         [] res.tag = "Err" -> Err(res.error)
         [] res.tag = "Ok" /\ res.value.tag = "Ok" -> Ok(res.value.value)

\* The caller takes the value returned and is free to make the next call.
FnReturn ==
    /\ call # NoCall
    /\ call' = NoCall
    /\ ret' = NoCall
    /\ UNCHANGED <<ui_vars, worker_vars, lock_vars>>

CallFlatTimeout ==
    /\ call = NoCall
    /\ \E duration \in 0..MaxDuration, f \in Futures :
        /\ call' = [fn |-> "flat_timeout", duration |-> duration, f |-> f]
        /\ ret' = flat_timeout(duration, f)
    /\ UNCHANGED <<ui_vars, worker_vars, lock_vars>>

(***************************************************************************)
(* Strings, as sequences of one-character strings.                         *)
(***************************************************************************)
\* The characters that are compared, in the order of their byte values.
Chars == <<" ", "-", ".", "0", "1", "2", "3", "4", "5", "6", "7", "8", "9", ">",
           "a", "b", "g", "i", "t">>
Digits == {"0", "1", "2", "3", "4", "5", "6", "7", "8", "9"}
byte(c) == CHOOSE i \in 1..Len(Chars) : Chars[i] = c
\* char::is_alphanumeric
is_alphanumeric(c) == c \in Digits \cup {"a", "b", "g", "i", "t"}

\* Ord for String: byte-wise lexicographic, a proper prefix being less.
String_gt(a, b) ==
    \/ \E i \in 1..Len(a) :
        /\ i <= Len(b)
        /\ SubSeq(a, 1, i - 1) = SubSeq(b, 1, i - 1)
        /\ byte(a[i]) > byte(b[i])
    \/ Len(a) > Len(b) /\ SubSeq(a, 1, Len(b)) = b

\* str::split(c): the pieces between the separators, empty ones included.
RECURSIVE split(_, _)
split(s, seps) ==
    IF \E i \in 1..Len(s) : s[i] \in seps
    THEN LET i == CHOOSE j \in 1..Len(s) :
                    s[j] \in seps /\ \A k \in 1..(j - 1) : s[k] \notin seps
         IN <<SubSeq(s, 1, i - 1)>> \o split(SubSeq(s, i + 1, Len(s)), seps)
    ELSE <<s>>

\* str::split_once(c): around the first separator.
split_once(s, c) ==
    IF \E i \in 1..Len(s) : s[i] = c
    THEN LET i == CHOOSE j \in 1..Len(s) :
                    s[j] = c /\ \A k \in 1..(j - 1) : s[k] # c
         IN Some(<<SubSeq(s, 1, i - 1), SubSeq(s, i + 1, Len(s))>>)
    ELSE NoneOpt

\* str::rsplit_once(c): around the last separator.
rsplit_once(s, c) ==
    IF \E i \in 1..Len(s) : s[i] = c
    THEN LET i == CHOOSE j \in 1..Len(s) :
                    s[j] = c /\ \A k \in (j + 1)..Len(s) : s[k] # c
         IN Some(<<SubSeq(s, 1, i - 1), SubSeq(s, i + 1, Len(s))>>)
    ELSE NoneOpt

\* str::parse::<i32>() of a string of digits.
RECURSIVE parse_i32(_)
parse_i32(s) ==
    IF s = <<>> THEN 0
    ELSE 10 * parse_i32(SubSeq(s, 1, Len(s) - 1)) + (byte(s[Len(s)]) - byte("0"))

(***************************************************************************)
(* version_compare::Version, on version strings whose parts are all        *)
(* numbers or all text.                                                    *)
(***************************************************************************)
\* Version::from: the string is cut at every non-alphanumeric character;
\* a version with parts but no number part does not parse.
Version_from(s) ==
    LET seps == {c \in {Chars[i] : i \in 1..Len(Chars)} : ~is_alphanumeric(c)}
        parts == SelectSeq(split(s, seps), LAMBDA p : p # <<>>)
        IsNumber(p) == \A i \in 1..Len(p) : p[i] \in Digits
    IN IF parts # <<>> /\ \A i \in 1..Len(parts) : ~IsNumber(parts[i])
       THEN NoneOpt
       ELSE Some([i \in 1..Len(parts) |-> parse_i32(parts[i])])

\* Version::compare: part by part; where one version has run out, a part 0
\* of the other is skipped and any other part decides.
RECURSIVE Version_compare(_, _)
Version_compare(a, b) ==
    CASE a = <<>> /\ b = <<>> -> "Eq"
      [] a = <<>> /\ b # <<>> ->
            IF Head(b) = 0 THEN Version_compare(a, Tail(b)) ELSE "Lt"
      [] a # <<>> /\ b = <<>> ->
            IF Head(a) = 0 THEN Version_compare(Tail(a), b) ELSE "Gt"
      [] OTHER ->
            IF Head(a) < Head(b) THEN "Lt"
            ELSE IF Head(a) > Head(b) THEN "Gt"
            ELSE Version_compare(Tail(a), Tail(b))

(***************************************************************************)
(* arch-updates-rs: packages and the two due tests.                        *)
(***************************************************************************)
\* pkgver strings: one and two numeric segments, a trailing zero segment, a
\* two-digit segment, and a commit hash.
PkgVers == {<<"1">>, <<"2">>, <<"1", ".", "0">>, <<"1", ".", "1">>,
            <<"1", "0">>, <<"a", "b">>}
\* pkgrel strings: one and two digits.
PkgRels == {<<"1">>, <<"2">>, <<"9">>, <<"1", "0">>}
PkgNames == {<<"a">>, <<"b">>}

\* AurUpdate
AurUpdate(pkgname, pkgver_cur, pkgrel_cur, pkgver_new, pkgrel_new) ==
    [pkgname |-> pkgname, pkgver_cur |-> pkgver_cur, pkgrel_cur |-> pkgrel_cur,
     pkgver_new |-> pkgver_new, pkgrel_new |-> pkgrel_new]

\* A test that falls back on the releases when a version does not parse.
aur_update_due_by_release(package) ==
    LET pkgver_new == Version_from(package.pkgver_new)
        pkgver_old == Version_from(package.pkgver_cur)
    IN IF pkgver_new = NoneOpt \/ pkgver_old = NoneOpt
       THEN String_gt(package.pkgrel_new, package.pkgrel_cur)
       ELSE \/ Version_compare(pkgver_new.some, pkgver_old.some) = "Gt"
            \/ /\ Version_compare(pkgver_new.some, pkgver_old.some) = "Eq"
               /\ String_gt(package.pkgrel_new, package.pkgrel_cur)

aur_update_due(package) ==
    LET pkgver_new == Version_from(package.pkgver_new)
        pkgver_old == Version_from(package.pkgver_cur)
    IN IF pkgver_new = NoneOpt THEN FALSE
       ELSE IF pkgver_old = NoneOpt THEN FALSE
       ELSE \/ Version_compare(pkgver_new.some, pkgver_old.some) = "Gt"
            \/ /\ Version_compare(pkgver_new.some, pkgver_old.some) = "Eq"
               /\ String_gt(package.pkgrel_new, package.pkgrel_cur)

CallAurUpdateDue ==
    /\ call = NoCall
    /\ \E n \in PkgNames, vc \in PkgVers, rc \in PkgRels,
          vn \in PkgVers, rn \in PkgRels :
        /\ call' = [fn |-> "aur_update_due",
                    package |-> AurUpdate(n, vc, rc, vn, rn)]
        /\ ret' = aur_update_due(AurUpdate(n, vc, rc, vn, rn))
    /\ UNCHANGED <<ui_vars, worker_vars, lock_vars>>

(***************************************************************************)
(* arch-updates-rs: the locally installed packages and the AUR checks.     *)
(***************************************************************************)
\* str::contains
contains(s, sub) ==
    \E i \in 1..(Len(s) - Len(sub) + 1) : SubSeq(s, i, i + Len(sub) - 1) = sub

\* Iterator::collect into a Result<Vec<_>>: the first error, or every value.
collect(results) ==
    IF \E i \in 1..Len(results) : results[i].tag = "Err"
    THEN results[CHOOSE i \in 1..Len(results) :
                    /\ results[i].tag = "Err"
                    /\ \A k \in 1..(i - 1) : results[k].tag = "Ok"]
    ELSE Ok([i \in 1..Len(results) |-> results[i].value])

\* Package
Package(pkgname, pkgver, pkgrel) ==
    [pkgname |-> pkgname, pkgver |-> pkgver, pkgrel |-> pkgrel]

\* The variants of Error that carry the text that failed to parse.
ParseError(variant, text) == [variant |-> variant, text |-> text]

\* A split of the combined version at its first hyphen.
parse_ver_and_rel_first_hyphen(version) ==
    IF split_once(version, "-") = NoneOpt
    THEN Err(ParseError("ParseErrorPkgverPkgrel", version))
    ELSE Ok(split_once(version, "-").some)

parse_ver_and_rel(version) ==
    IF rsplit_once(version, "-") = NoneOpt
    THEN Err(ParseError("ParseErrorPkgverPkgrel", version))
    ELSE Ok(rsplit_once(version, "-").some)

parse_pacman_qm(line) ==
    IF split_once(line, " ") = NoneOpt
    THEN Err(ParseError("ParseErrorPacman", line))
    ELSE LET pkgname == split_once(line, " ").some[1]
             rest == split_once(line, " ").some[2]
         IN IF parse_ver_and_rel(rest).tag = "Err" THEN parse_ver_and_rel(rest)
            ELSE Ok(Package(pkgname, parse_ver_and_rel(rest).value[1],
                            parse_ver_and_rel(rest).value[2]))

\* get_aur_packages, given what pacman-conf and pacman -Qm print.
get_aur_packages(ignored_packages, output) ==
    collect(LET kept == SelectSeq(output, LAMBDA line :
                            ~\E i \in 1..Len(ignored_packages) :
                                contains(line, ignored_packages[i]))
            IN [i \in 1..Len(kept) |-> parse_pacman_qm(kept[i])])

\* What pacman -Qm prints: at most one line for each of two packages, in the
\* order of their names. Package a is at 1-1, 1-2, 2-1 or at a commit hash,
\* or its line has no release; package b is at 1-1 or 2-1.
QmOutputs ==
    LET QmLinesA == {<<"a", " ", "1", "-", "1">>, <<"a", " ", "1", "-", "2">>,
                     <<"a", " ", "2", "-", "1">>,
                     <<"a", " ", "a", "b", "-", "1">>, <<"a", " ", "1">>}
        QmLinesB == {<<"b", " ", "1", "-", "1">>, <<"b", " ", "2", "-", "1">>}
    IN {<<>>} \cup {<<l>> : l \in QmLinesA \cup QmLinesB}
              \cup {<<la, lb>> : la \in QmLinesA, lb \in QmLinesB}
\* What pacman-conf IgnorePkg prints.
IgnoredLists == {<<>>, <<<<"b">>>>}

\* raur::Package, and what the AUR answers: an error, or a record for some of
\* the packages, in any order.
RaurPackage(name, version) == [name |-> name, version |-> version]
AurInfos ==
    LET AurInfoA == {RaurPackage(<<"a">>, v) :
                        v \in {<<"1", "-", "1">>, <<"1", "-", "2">>,
                               <<"2", "-", "1">>, <<"1">>}}
        AurInfoB == {RaurPackage(<<"b">>, v) :
                        v \in {<<"1", "-", "1">>, <<"2", "-", "1">>}}
    IN {Err("GetAurPackageFailed")}
       \cup {Ok(<<>>)} \cup {Ok(<<p>>) : p \in AurInfoA \cup AurInfoB}
       \cup {Ok(<<pa, pb>>) : pa \in AurInfoA, pb \in AurInfoB}
       \cup {Ok(<<pb, pa>>) : pa \in AurInfoA, pb \in AurInfoB}

\* Option::unwrap / Result::unwrap on a missing value.
Panic == [tag |-> "Panic"]

\* An Online check whose cache holds the due records only.
check_aur_updates_online_due_cache(old_res, info) ==
    IF old_res.tag = "Err" THEN old_res
    ELSE IF info.tag = "Err" THEN Err("GetAurPackageFailed")
    ELSE
    LET old == old_res.value
        found == SelectSeq(info.value, LAMBDA new :
                    \E i \in 1..Len(old) : old[i].pkgname = new.name)
        local(new) == CHOOSE q \in {old[i] : i \in 1..Len(old)} : q.pkgname = new.name
        cache == [i \in 1..Len(found) |->
                    AurUpdate(local(found[i]).pkgname, local(found[i]).pkgver,
                              local(found[i]).pkgrel,
                              parse_ver_and_rel(found[i].version).value[1],
                              parse_ver_and_rel(found[i].version).value[2])]
    IN IF \E i \in 1..Len(found) : parse_ver_and_rel(found[i].version).tag = "Err"
       THEN Panic
       ELSE Ok(<<SelectSeq(cache, aur_update_due), SelectSeq(cache, aur_update_due)>>)

check_aur_updates_online(old_res, info) ==
    IF old_res.tag = "Err" THEN old_res
    ELSE IF info.tag = "Err" THEN Err("GetAurPackageFailed")
    ELSE
    LET old == old_res.value
        found == SelectSeq(info.value, LAMBDA new :
                    \E i \in 1..Len(old) : old[i].pkgname = new.name)
        matching_old(new) ==
            old[CHOOSE i \in 1..Len(old) :
                    /\ old[i].pkgname = new.name
                    /\ \A k \in 1..(i - 1) : old[k].pkgname # new.name]
        cache == [i \in 1..Len(found) |->
                    AurUpdate(matching_old(found[i]).pkgname,
                              matching_old(found[i]).pkgver,
                              matching_old(found[i]).pkgrel,
                              parse_ver_and_rel(found[i].version).value[1],
                              parse_ver_and_rel(found[i].version).value[2])]
    IN IF \E i \in 1..Len(found) : parse_ver_and_rel(found[i].version).tag = "Err"
       THEN Panic
       ELSE Ok(<<SelectSeq(cache, aur_update_due), cache>>)

\* An Offline check that reports a package the cache does not hold.
check_aur_updates_offline_missing_due(old_res, cache) ==
    IF old_res.tag = "Err" THEN old_res
    ELSE LET old == old_res.value
             cached(p) == \E i \in 1..Len(cache) : cache[i].pkgname = p.pkgname
             new_of(p) == CHOOSE c \in {cache[k] : k \in 1..Len(cache)} :
                            c.pkgname = p.pkgname
             all == [i \in 1..Len(old) |->
                        IF cached(old[i])
                        THEN AurUpdate(old[i].pkgname, old[i].pkgver, old[i].pkgrel,
                                       new_of(old[i]).pkgver_new,
                                       new_of(old[i]).pkgrel_new)
                        ELSE AurUpdate(old[i].pkgname, old[i].pkgver, old[i].pkgrel,
                                       old[i].pkgver, old[i].pkgrel)]
         IN Ok(SelectSeq(all, LAMBDA u :
                    aur_update_due(u) \/ \A k \in 1..Len(cache) :
                                            cache[k].pkgname # u.pkgname))

\* An Offline check that reports every installed package found in the cache.
check_aur_updates_offline_unfiltered(old_res, cache) ==
    IF old_res.tag = "Err" THEN old_res
    ELSE LET old == old_res.value
             found == SelectSeq(old, LAMBDA p :
                        \E i \in 1..Len(cache) : cache[i].pkgname = p.pkgname)
         IN Ok([i \in 1..Len(found) |->
                 LET c == CHOOSE c \in {cache[k] : k \in 1..Len(cache)} :
                            c.pkgname = found[i].pkgname
                 IN AurUpdate(found[i].pkgname, found[i].pkgver, found[i].pkgrel,
                              c.pkgver_new, c.pkgrel_new)])

check_aur_updates_offline(old_res, cache) ==
    IF old_res.tag = "Err" THEN old_res
    ELSE
    LET old == old_res.value
        matching_cached(old_package) ==
            IF \E i \in 1..Len(cache) : cache[i].pkgname = old_package.pkgname
            THEN Some(cache[CHOOSE i \in 1..Len(cache) :
                        /\ cache[i].pkgname = old_package.pkgname
                        /\ \A k \in 1..(i - 1) :
                                cache[k].pkgname # old_package.pkgname])
            ELSE NoneOpt
        updates_all == [i \in 1..Len(old) |->
            IF matching_cached(old[i]) # NoneOpt
            THEN AurUpdate(old[i].pkgname, old[i].pkgver, old[i].pkgrel,
                           matching_cached(old[i]).some.pkgver_new,
                           matching_cached(old[i]).some.pkgrel_new)
            ELSE AurUpdate(old[i].pkgname, old[i].pkgver, old[i].pkgrel,
                           old[i].pkgver, old[i].pkgrel)]
    IN Ok(SelectSeq(updates_all, aur_update_due))

CallCheckAurUpdatesOnline ==
    /\ call = NoCall
    /\ \E ignored \in IgnoredLists, output \in QmOutputs, info \in AurInfos :
        /\ call' = [fn |-> "check_aur_updates_online", ignored |-> ignored,
                    output |-> output, info |-> info]
        /\ ret' = check_aur_updates_online(get_aur_packages(ignored, output), info)
    /\ UNCHANGED <<ui_vars, worker_vars, lock_vars>>

\* A later Offline check with the cache the Online check returned; the
\* installed packages are whatever pacman -Qm prints by then.
CallCheckAurUpdatesOffline ==
    /\ call.fn = "check_aur_updates_online"
    /\ ret.tag = "Ok"
    /\ \E output \in QmOutputs :
        /\ call' = [fn |-> "check_aur_updates_offline", ignored |-> call.ignored,
                    output |-> output, cache |-> ret.value[2],
                    online |-> ret.value[1], output_online |-> call.output]
        /\ ret' = check_aur_updates_offline(
                    get_aur_packages(call.ignored, output), ret.value[2])
    /\ UNCHANGED <<ui_vars, worker_vars, lock_vars>>

(***************************************************************************)
(* arch-updates-rs: the source fields of a .SRCINFO.                       *)
(***************************************************************************)
\* str::starts_with
starts_with(s, prefix) ==
    Len(prefix) <= Len(s) /\ SubSeq(s, 1, Len(prefix)) = prefix

\* str::splitn(2, pat): the string itself, or what is before and what is
\* after the first occurrence of pat.
splitn2(s, pat) ==
    IF contains(s, pat)
    THEN LET i == CHOOSE j \in 1..Len(s) :
                    /\ SubSeq(s, j, j + Len(pat) - 1) = pat
                    /\ \A k \in 1..(j - 1) : SubSeq(s, k, k + Len(pat) - 1) # pat
         IN <<SubSeq(s, 1, i - 1), SubSeq(s, i + Len(pat), Len(s))>>
    ELSE <<s>>

\* PackageUrl
PackageUrl(remote, protocol, branch) ==
    [remote |-> remote, protocol |-> protocol, branch |-> branch]

\* A parse that does not reject the pinned fragments.
parse_url_unpinned(source) ==
    LET url == splitn2(source, <<":", ":">>)[Len(splitn2(source, <<":", ":">>))]
    IN IF ~starts_with(url, <<"g", "i", "t">>) \/ ~contains(url, <<":", "/", "/">>)
       THEN NoneOpt
       ELSE
       LET before == splitn2(url, <<":", "/", "/">>)[1]
           protocol == IF rsplit_once(before, "+") = NoneOpt THEN before
                       ELSE rsplit_once(before, "+").some[2]
           rest == splitn2(url, <<":", "/", "/">>)[2]
           halves == splitn2(rest, <<"#">>)
           remote == protocol \o <<":", "/", "/">> \o
                     (IF split_once(halves[1], "?") = NoneOpt THEN halves[1]
                      ELSE split_once(halves[1], "?").some[1])
       IN IF Len(halves) = 2
          THEN LET fragment == IF split_once(halves[2], "?") = NoneOpt
                               THEN halves[2]
                               ELSE split_once(halves[2], "?").some[1]
                   frag_type == splitn2(fragment, <<"=">>)[1]
               IN IF FALSE
                  THEN NoneOpt
                  ELSE Some(PackageUrl(remote, protocol,
                            IF frag_type = <<"b", "r", "a", "n", "c", "h">>
                               /\ Len(splitn2(fragment, <<"=">>)) = 2
                            THEN Some(splitn2(fragment, <<"=">>)[2])
                            ELSE NoneOpt))
          ELSE Some(PackageUrl(remote, protocol, NoneOpt))

\* A parse that takes everything before :// as the protocol.
parse_url_whole_scheme(source) ==
    LET url == splitn2(source, <<":", ":">>)[Len(splitn2(source, <<":", ":">>))]
    IN IF ~starts_with(url, <<"g", "i", "t">>) \/ ~contains(url, <<":", "/", "/">>)
       THEN NoneOpt
       ELSE
       LET before == splitn2(url, <<":", "/", "/">>)[1]
           protocol == before
           rest == splitn2(url, <<":", "/", "/">>)[2]
           halves == splitn2(rest, <<"#">>)
           remote == protocol \o <<":", "/", "/">> \o
                     (IF split_once(halves[1], "?") = NoneOpt THEN halves[1]
                      ELSE split_once(halves[1], "?").some[1])
       IN IF Len(halves) = 2
          THEN LET fragment == IF split_once(halves[2], "?") = NoneOpt
                               THEN halves[2]
                               ELSE split_once(halves[2], "?").some[1]
                   frag_type == splitn2(fragment, <<"=">>)[1]
               IN IF frag_type \in {<<"c", "o", "m", "m", "i", "t">>, <<"t", "a", "g">>}
                  THEN NoneOpt
                  ELSE Some(PackageUrl(remote, protocol,
                            IF frag_type = <<"b", "r", "a", "n", "c", "h">>
                               /\ Len(splitn2(fragment, <<"=">>)) = 2
                            THEN Some(splitn2(fragment, <<"=">>)[2])
                            ELSE NoneOpt))
          ELSE Some(PackageUrl(remote, protocol, NoneOpt))

parse_url(source) ==
    LET url == splitn2(source, <<":", ":">>)[Len(splitn2(source, <<":", ":">>))]
    IN IF ~starts_with(url, <<"g", "i", "t">>) \/ ~contains(url, <<":", "/", "/">>)
       THEN NoneOpt
       ELSE
       LET before == splitn2(url, <<":", "/", "/">>)[1]
           protocol == IF rsplit_once(before, "+") = NoneOpt THEN before
                       ELSE rsplit_once(before, "+").some[2]
           rest == splitn2(url, <<":", "/", "/">>)[2]
           halves == splitn2(rest, <<"#">>)
           remote == protocol \o <<":", "/", "/">> \o
                     (IF split_once(halves[1], "?") = NoneOpt THEN halves[1]
                      ELSE split_once(halves[1], "?").some[1])
       IN IF Len(halves) = 2
          THEN LET fragment == IF split_once(halves[2], "?") = NoneOpt
                               THEN halves[2]
                               ELSE split_once(halves[2], "?").some[1]
                   frag_type == splitn2(fragment, <<"=">>)[1]
               IN IF frag_type \in {<<"c", "o", "m", "m", "i", "t">>, <<"t", "a", "g">>}
                  THEN NoneOpt
                  ELSE Some(PackageUrl(remote, protocol,
                            IF frag_type = <<"b", "r", "a", "n", "c", "h">>
                               /\ Len(splitn2(fragment, <<"=">>)) = 2
                            THEN Some(splitn2(fragment, <<"=">>)[2])
                            ELSE NoneOpt))
          ELSE Some(PackageUrl(remote, protocol, NoneOpt))

\* The source fields parse_url is called on, by their parts: an optional
\* file name, the text before the host separator, the separator, the rest,
\* an optional query and an optional fragment. A fragment has a type, an
\* optional value after = and an optional query of its own.
SourceParts ==
    [filename : {NoneOpt, Some(<<"f">>)},
     scheme : {<<"g", "i", "t", "+", "s", "s", "h">>, <<"g", "i", "t">>, <<"s", "s", "h">>, <<"s", "v", "n", "+", "s", "s", "h">>},
     sep : {<<":", "/", "/">>, <<":", "/">>},
     rest : {<<"h", "/", "r">>, <<"h", ":", ":", "r">>},
     query : {NoneOpt, Some(<<"q">>)},
     fragment : {NoneOpt} \cup
        {Some([type |-> ty, value |-> v, query |-> q]) :
            ty \in {<<"b", "r", "a", "n", "c", "h">>}, v \in {NoneOpt, Some(<<"m">>)},
            q \in {NoneOpt, Some(<<"s">>)}} \cup
        {Some([type |-> ty, value |-> Some(<<"1">>), query |-> NoneOpt]) :
            ty \in {<<"c", "o", "m", "m", "i", "t">>, <<"t", "a", "g">>, <<"r", "e", "v">>}}]

\* The source field made of the parts.
source_of(parts) ==
    (IF parts.filename = NoneOpt THEN <<>> ELSE parts.filename.some \o <<":", ":">>)
    \o parts.scheme \o parts.sep \o parts.rest
    \o (IF parts.query = NoneOpt THEN <<>> ELSE <<"?">> \o parts.query.some)
    \o (IF parts.fragment = NoneOpt THEN <<>>
        ELSE <<"#">> \o parts.fragment.some.type
             \o (IF parts.fragment.some.value = NoneOpt THEN <<>>
                 ELSE <<"=">> \o parts.fragment.some.value.some)
             \o (IF parts.fragment.some.query = NoneOpt THEN <<>>
                 ELSE <<"?">> \o parts.fragment.some.query.some))

CallParseUrl ==
    /\ call = NoCall
    /\ \E parts \in SourceParts :
        /\ call' = [fn |-> "parse_url", parts |-> parts,
                    source |-> source_of(parts)]
        /\ ret' = parse_url(source_of(parts))
    /\ UNCHANGED <<ui_vars, worker_vars, lock_vars>>

(***************************************************************************)
(* arch-updates-rs: the devel checks.                                      *)
(***************************************************************************)
DEVEL_SUFFIXES == <<<<"-", "g", "i", "t">>>>

\* DevelUpdate
DevelUpdate(pkgname, pkgver_cur, pkgrel_cur, ref_id_new) ==
    [pkgname |-> pkgname, pkgver_cur |-> pkgver_cur, pkgrel_cur |-> pkgrel_cur,
     ref_id_new |-> ref_id_new]

\* A due test that asks for the version to differ from the ref id.
devel_update_due_unequal(update) == update.pkgver_cur # update.ref_id_new

devel_update_due(update) == ~contains(update.pkgver_cur, update.ref_id_new)

\* get_devel_packages; no modelled name has an upper-case letter, so
\* to_lowercase leaves the names as they are.
get_devel_packages(ignored_packages, output) ==
    LET aur_packages == get_aur_packages(ignored_packages, output)
    IN IF aur_packages.tag = "Err" THEN aur_packages
       ELSE Ok(SelectSeq(aur_packages.value, LAMBDA package :
                    \E i \in 1..Len(DEVEL_SUFFIXES) :
                        contains(package.pkgname, DEVEL_SUFFIXES[i])))

\* What pacman -Qm prints for the two listings: up to two lines, of packages
\* a, b and ab, of a at a version that holds the letter b, of a-git and of
\* a-git-b.
QmListings ==
    LET lines == {<<"a", " ", "1", "-", "1">>, <<"b", " ", "1", "-", "1">>,
                  <<"a", "b", " ", "1", "-", "1">>,
                  <<"a", " ", "1", ".", "b", "-", "1">>,
                  <<"a", "-", "g", "i", "t", " ", "1", "-", "1">>,
                  <<"a", "-", "g", "i", "t", "-", "b", " ", "1", "-", "1">>}
    IN {<<>>} \cup {<<l>> : l \in lines} \cup {<<l, m>> : l, m \in lines}

CallGetAurPackages ==
    /\ call = NoCall
    /\ \E ignored \in IgnoredLists, output \in QmListings :
        /\ call' = [fn |-> "get_aur_packages", ignored |-> ignored,
                    output |-> output]
        /\ ret' = get_aur_packages(ignored, output)
    /\ UNCHANGED <<ui_vars, worker_vars, lock_vars>>

CallGetDevelPackages ==
    /\ call = NoCall
    /\ \E ignored \in IgnoredLists, output \in QmListings :
        /\ call' = [fn |-> "get_devel_packages", ignored |-> ignored,
                    output |-> output]
        /\ ret' = get_devel_packages(ignored, output)
    /\ UNCHANGED <<ui_vars, worker_vars, lock_vars>>

\* What pacman -Qm prints where devel packages are installed: a-git built at
\* commit aaaaaaa or bbbbbbb, b-git built at either, and the plain package b.
QmDevelOutputs ==
    LET QmLinesAGit ==
            {<<"a", "-", "g", "i", "t", " ", "1", ".", "a", "a", "a", "a", "a", "a", "a", "-", "1">>,
             <<"a", "-", "g", "i", "t", " ", "1", ".", "b", "b", "b", "b", "b", "b", "b", "-", "1">>,
             <<"a", "-", "g", "i", "t", " ", "2", ".", "b", "b", "b", "b", "b", "b", "b", "-", "1">>}
        QmLinesBGit ==
            {<<"b", "-", "g", "i", "t", " ", "1", ".", "a", "a", "a", "a", "a", "a", "a", "-", "1">>,
             <<"b", "-", "g", "i", "t", " ", "1", ".", "b", "b", "b", "b", "b", "b", "b", "-", "1">>}
    IN {la \o lb \o lc :
            la \in {<<>>} \cup {<<l>> : l \in QmLinesAGit},
            lb \in {<<>>, <<<<"b", " ", "1", "-", "1">>>>},
            lc \in {<<>>} \cup {<<l>> : l \in QmLinesBGit}}

\* A head identifier of whatever length git ls-remote gives.
get_head_identifier_of_any_length(stdout) ==
    IF Len(stdout) < 7 THEN Ok(stdout) ELSE Ok(SubSeq(stdout, 1, 7))

\* get_head_identifier, given what git ls-remote prints.
get_head_identifier(stdout) ==
    IF Len(stdout) < 7 THEN Err("HeadIdentifierTooShort")
    ELSE Ok(SubSeq(stdout, 1, 7))

\* What the network answers for one package: get_aur_srcinfo fails, or the
\* .SRCINFO has some source fields, each with what git ls-remote prints for
\* it: a git source at commit aaaaaaab or bbbbbbba or with no answer, a
\* source that is not a git source, and a git source pinned to a tag.
Srcinfos ==
    LET Git(stdout) == [source |-> <<"g", "i", "t", "+", "s", "s", "h", ":", "/", "/", "h">>,
                        stdout |-> stdout]
        Plain == [source |-> <<"s", "s", "h", ":", "/", "/", "h">>, stdout |-> <<>>]
        Pinned == [source |-> <<"g", "i", "t", "+", "s", "s", "h", ":", "/", "/", "h", "#", "t", "a", "g", "=", "1">>,
                   stdout |-> <<"a", "a", "a", "a", "a", "a", "a", "b">>]
        Commits == {<<"a", "a", "a", "a", "a", "a", "a", "b">>,
                    <<"b", "b", "b", "b", "b", "b", "b", "a">>}
        SrcinfosA ==
            {Err("GetAurPackageFailed"), Ok(<<>>), Ok(<<Git(<<>>)>>), Ok(<<Pinned>>)}
            \cup {Ok(<<Git(c)>>) : c \in Commits}
            \cup {Ok(<<Git(<<"a", "a", "a", "a", "a", "a", "a", "b">>),
                       Git(<<"b", "b", "b", "b", "b", "b", "b", "a">>)>>),
                  Ok(<<Plain, Git(<<"a", "a", "a", "a", "a", "a", "a", "b">>)>>)}
        SrcinfosB == {Ok(<<>>), Ok(<<Git(<<>>)>>)}
                     \cup {Ok(<<Git(c)>>) : c \in Commits}
    IN {(<<"a", "-", "g", "i", "t">> :> sa) @@ (<<"b", "-", "g", "i", "t">> :> sb) :
            sa \in SrcinfosA, sb \in SrcinfosB}

RECURSIVE flatten(_)
flatten(seqs) == IF seqs = <<>> THEN <<>> ELSE Head(seqs) \o flatten(Tail(seqs))

\* check_devel_updates_online; srcinfo[pkgname] is what get_aur_srcinfo
\* returns for the package, with the answers of git ls-remote.
check_devel_updates_online(devel_packages_res, srcinfo) ==
    IF devel_packages_res.tag = "Err" THEN devel_packages_res
    ELSE
    LET devel_packages == devel_packages_res.value
        of_package(pkg) ==
            IF srcinfo[pkg.pkgname].tag = "Err" THEN <<Panic>>
            ELSE LET urls == SelectSeq(srcinfo[pkg.pkgname].value,
                                LAMBDA url : parse_url(url.source) # NoneOpt)
                 IN [j \in 1..Len(urls) |->
                        IF get_head_identifier(urls[j].stdout).tag = "Err"
                        THEN get_head_identifier(urls[j].stdout)
                        ELSE Ok(DevelUpdate(pkg.pkgname, pkg.pkgver, pkg.pkgrel,
                                    get_head_identifier(urls[j].stdout).value))]
        stream == flatten([i \in 1..Len(devel_packages) |->
                                of_package(devel_packages[i])])
        devel_updates == [i \in 1..Len(stream) |-> stream[i].value]
    IN IF \E i \in 1..Len(stream) : stream[i].tag # "Ok"
       THEN LET first == CHOOSE i \in 1..Len(stream) :
                            /\ stream[i].tag # "Ok"
                            /\ \A k \in 1..(i - 1) : stream[k].tag = "Ok"
            IN stream[first]
       ELSE Ok(<<SelectSeq(devel_updates, devel_update_due), devel_updates>>)

check_devel_updates_offline(devel_packages_res, cache) ==
    IF devel_packages_res.tag = "Err" THEN devel_packages_res
    ELSE
    LET devel_packages == devel_packages_res.value
        of_package(package) ==
            LET hits == SelectSeq(cache, LAMBDA cache_package :
                            cache_package.pkgname = package.pkgname)
            IN [j \in 1..Len(hits) |->
                    DevelUpdate(package.pkgname, package.pkgver, package.pkgrel,
                                hits[j].ref_id_new)]
        devel_updates == flatten([i \in 1..Len(devel_packages) |->
                                    of_package(devel_packages[i])])
    IN Ok(SelectSeq(devel_updates, devel_update_due))

CallCheckDevelUpdatesOnline ==
    /\ call = NoCall
    /\ \E output \in QmDevelOutputs, srcinfo \in Srcinfos :
        /\ call' = [fn |-> "check_devel_updates_online", ignored |-> <<>>,
                    output |-> output, srcinfo |-> srcinfo]
        /\ ret' = check_devel_updates_online(
                    get_devel_packages(<<>>, output), srcinfo)
    /\ UNCHANGED <<ui_vars, worker_vars, lock_vars>>

\* A later Offline check with the cache the Online check returned.
CallCheckDevelUpdatesOffline ==
    /\ call.fn = "check_devel_updates_online"
    /\ ret.tag = "Ok"
    /\ \E output \in QmDevelOutputs :
        /\ call' = [fn |-> "check_devel_updates_offline", ignored |-> call.ignored,
                    output |-> output, cache |-> ret.value[2],
                    online |-> ret.value[1], output_online |-> call.output]
        /\ ret' = check_devel_updates_offline(
                    get_devel_packages(call.ignored, output), ret.value[2])
    /\ UNCHANGED <<ui_vars, worker_vars, lock_vars>>

(***************************************************************************)
(* arch-updates-rs: the pacman check.                                      *)
(***************************************************************************)
\* Iterator::nth on the pieces of a line.
nth(parts, n) == IF n + 1 <= Len(parts) THEN Some(parts[n + 1]) ELSE NoneOpt

parse_update(value) ==
    LET parts == split(value, {" "})
        cur == nth(parts, 1)
        new == nth(parts, 3)
    IN IF cur = NoneOpt THEN Err(ParseError("ParseErrorCheckUpdates", value))
       ELSE IF parse_ver_and_rel(cur.some).tag = "Err"
            THEN parse_ver_and_rel(cur.some)
       ELSE IF new = NoneOpt
            THEN Err(ParseError("ParseErrorCheckUpdates", value))
       ELSE IF parse_ver_and_rel(new.some).tag = "Err"
            THEN parse_ver_and_rel(new.some)
       ELSE Ok(AurUpdate(parts[1],
                         parse_ver_and_rel(cur.some).value[1],
                         parse_ver_and_rel(cur.some).value[2],
                         parse_ver_and_rel(new.some).value[1],
                         parse_ver_and_rel(new.some).value[2]))

\* Lines for parse_update: well-formed updates, one with an epoch and with
\* hyphens inside the versions; lines that stop after the name, after the
\* installed version or after the arrow; lines whose installed or new version
\* has no hyphen; the empty line; a line with a fifth field.
UpdateLines ==
    {<<"a", " ", "1", ":", "1", "-", "0", "-", "1", " ", "-", ">", " ", "1", ":", "1", "-", "1", "-", "2">>,
     <<"b", " ", "1", "-", "1", " ", "-", ">", " ", "1", "-", "2">>,
     <<"a">>,
     <<"a", " ", "1", "-", "1">>,
     <<"a", " ", "1", "-", "1", " ", "-", ">">>,
     <<"a", " ", "1">>,
     <<"a", " ", "1", " ", "-", ">">>,
     <<"a", " ", "1", "-", "1", " ", "-", ">", " ", "2">>,
     <<"a", "1", "-", "1", " ", "-", " ", "1", "-", "2">>,
     <<>>,
     <<"a", " ", "1", "-", "1", " ", "-", ">", " ", "1", "-", "2", " ", "b">>}

CallParseUpdate ==
    /\ call = NoCall
    /\ \E value \in UpdateLines :
        /\ call' = [fn |-> "parse_update", value |-> value]
        /\ ret' = parse_update(value)
    /\ UNCHANGED <<ui_vars, worker_vars, lock_vars>>

\* What checkupdates prints: up to two lines, each a well-formed update of a
\* or of b, a line that stops after the installed version, or a line whose
\* new version has no release.
CheckupdatesOutputs ==
    LET lines == {<<"a", " ", "1", "-", "1", " ", "-", ">", " ", "1", "-", "2">>,
                  <<"b", " ", "1", "-", "1", " ", "-", ">", " ", "2", "-", "1">>,
                  <<"a", " ", "1", "-", "1">>,
                  <<"b", " ", "1", "-", "1", " ", "-", ">", " ", "2">>}
    IN {<<>>} \cup {<<l>> : l \in lines} \cup {<<l, m>> : l, m \in lines}

\* check_updates, given what checkupdates prints.
check_updates(check, output) ==
    collect([i \in 1..Len(output) |-> parse_update(output[i])])

CallCheckUpdates ==
    /\ call = NoCall
    /\ \E check \in {"Online", "Offline"}, output \in CheckupdatesOutputs :
        /\ call' = [fn |-> "check_updates", check |-> check,
                    output |-> output]
        /\ ret' = check_updates(check, output)
    /\ UNCHANGED <<ui_vars, worker_vars, lock_vars>>

(***************************************************************************)
(* arch-updates-rs: source_repo.rs.                                        *)
(***************************************************************************)
\* SourceRepo::from_text
SourceRepo_from_text(text) ==
    CASE text = <<"c", "o", "r", "e">> -> [repo |-> "Core"]
      [] text = <<"e", "x", "t", "r", "a">> -> [repo |-> "Extra"]
      [] text = <<"m", "u", "l", "t", "i", "l", "i", "b">> -> [repo |-> "Multilib"]
      [] text = <<"c", "o", "r", "e", "-", "t", "e", "s", "t", "i", "n", "g">> -> [repo |-> "CoreTesting"]
      [] text = <<"e", "x", "t", "r", "a", "-", "t", "e", "s", "t", "i", "n", "g">> -> [repo |-> "ExtraTesting"]
      [] text = <<"m", "u", "l", "t", "i", "l", "i", "b", "-", "t", "e", "s", "t", "i", "n", "g">> -> [repo |-> "MultilibTesting"]
      [] text = <<"g", "n", "o", "m", "e", "-", "u", "n", "s", "t", "a", "b", "l", "e">> -> [repo |-> "GnomeUnstable"]
      [] text = <<"k", "d", "e", "-", "u", "n", "s", "t", "a", "b", "l", "e">> -> [repo |-> "KdeUnstable"]
      [] OTHER -> [repo |-> "Other", name |-> text]

parse_pacman_sl(line) ==
    LET parts == split(line, {" "})
    IN IF nth(parts, 1) = NoneOpt THEN Err(ParseError("ParseErrorPacman", line))
       ELSE Ok(<<nth(parts, 1).some, SourceRepo_from_text(nth(parts, 0).some)>>)

\* get_sources_list, given what pacman -Sl prints: the pairs collected into a
\* HashMap, where a later pair replaces an earlier one with the same key.
get_sources_list(output) ==
    LET pairs == collect([i \in 1..Len(output) |-> parse_pacman_sl(output[i])])
    IN IF pairs.tag = "Err" THEN pairs
       ELSE Ok([pkgname \in {pairs.value[i][1] : i \in 1..Len(pairs.value)} |->
                pairs.value[CHOOSE i \in 1..Len(pairs.value) :
                    /\ pairs.value[i][1] = pkgname
                    /\ \A k \in (i + 1)..Len(pairs.value) :
                            pairs.value[k][1] # pkgname][2]])

\* What pacman -Sl prints: up to two lines, for package a in core, package b
\* in extra, package a in the unofficial repository x, or a line that stops
\* after the repository.
SlOutputs ==
    LET lines == {<<"c", "o", "r", "e", " ", "a", " ", "1", "-", "1">>,
                  <<"e", "x", "t", "r", "a", " ", "b", " ", "1", "-", "1", " ", "[", "i", "n", "s", "t", "a", "l", "l", "e", "d", "]">>,
                  <<"x", " ", "a", " ", "1", "-", "1">>,
                  <<"c", "o", "r", "e">>}
    IN {<<>>} \cup {<<l>> : l \in lines} \cup {<<l, m>> : l, m \in lines}

\* PacmanUpdate
PacmanUpdate(update, source_repo) ==
    [pkgname |-> update.pkgname, pkgver_cur |-> update.pkgver_cur,
     pkgrel_cur |-> update.pkgrel_cur, pkgver_new |-> update.pkgver_new,
     pkgrel_new |-> update.pkgrel_new, source_repo |-> source_repo]

\* A merge that keeps only the updates found in the sources list.
add_sources_to_updates_found(parsed, sources_list) ==
    LET found == SelectSeq(parsed, LAMBDA u : u.pkgname \in DOMAIN sources_list)
    IN [i \in 1..Len(found) |->
            PacmanUpdate(found[i], Some(sources_list[found[i].pkgname]))]

add_sources_to_updates(parsed, sources_list) ==
    [i \in 1..Len(parsed) |->
        PacmanUpdate(parsed[i],
                     IF parsed[i].pkgname \in DOMAIN sources_list
                     THEN Some(sources_list[parsed[i].pkgname])
                     ELSE NoneOpt)]

\* The parsed updates come from checkupdates, the sources list from pacman -Sl.
CallAddSourcesToUpdates ==
    /\ call = NoCall
    /\ \E cu \in CheckupdatesOutputs, sl \in SlOutputs :
        /\ check_updates("Online", cu).tag = "Ok"
        /\ get_sources_list(sl).tag = "Ok"
        /\ call' = [fn |-> "add_sources_to_updates",
                    parsed |-> check_updates("Online", cu).value, output |-> sl]
        /\ ret' = add_sources_to_updates(check_updates("Online", cu).value,
                                         get_sources_list(sl).value)
    /\ UNCHANGED <<ui_vars, worker_vars, lock_vars>>

(***************************************************************************)
(* Specifications.                                                         *)
(***************************************************************************)
\* A worker that has not started: the state of the parts a specification
\* leaves alone.
WorkerIdle ==
    /\ online_check_period = 1
    /\ counter = 0
    /\ cache_state = [s \in Sources |-> NoneOpt]
    /\ notify = 0
    /\ unserviced = FALSE
    /\ pc = "select"
    /\ fut = [s \in Sources |-> "idle"]
    /\ emitted = NoMsg
    /\ last_branch = "none"
    /\ last_check = "none"
    /\ ticks = 0
    /\ forces = 0
    /\ passes = 0

\* The updates worker.
Init == WorkerInit /\ UIInit /\ LockInit /\ FnInit
Next ==
    \/ ForceGetUpdates
    \/ Tick
    \/ ForcedRefresh
    \/ \E s \in Sources : CheckOk(s)
    \/ \E s \in Sources : CheckErr(s)
    \/ \E s \in Sources : CheckTimeout(s)
    \/ OnlineDone
    \/ ForcedDone
    \/ OfflineDone
    \/ ForcedTimeout
    \/ OfflineTimeout
Spec == Init /\ [][Next]_vars

\* A step of a pass in flight.
PassStep ==
    \/ \E s \in Sources : CheckOk(s) \/ CheckErr(s) \/ CheckTimeout(s)
    \/ OnlineDone
    \/ ForcedDone
    \/ OfflineDone
    \/ ForcedTimeout
    \/ OfflineTimeout

\* The worker as the runtime schedules it: a pass in flight goes on (every
\* await in it is a check that returns or a timeout that expires), and
\* select!, which picks among its ready branches at random, does not pass
\* over a stored permit forever.
SpecFair ==
    /\ Init
    /\ [][Next]_vars
    /\ WF_vars(PassStep)
    /\ SF_vars(ForcedRefresh)

\* The app's handlers, on every message a worker can send.
InitUI == UIInit /\ WorkerIdle /\ LockInit /\ FnInit
NextUI ==
    \/ UIOnline
    \/ UIBounced
    \/ UIOffline
    \/ UISetRefreshing
SpecUI == InitUI /\ [][NextUI]_vars

\* Two applet instances and the lock file.
InitLock == LockInit /\ WorkerIdle /\ UIInit /\ FnInit
NextLock ==
    \/ \E i \in Instances : StartOnline(i)
    \/ \E t \in Threads : Grant(t)
    \/ \E i \in Instances : Acquired(i)
    \/ \E i \in Instances : ToolExit(i)
    \/ \E i \in Instances : TimeoutWaiting(i)
    \/ \E i \in Instances : TimeoutRunning(i)
    \/ \E t \in Threads : OrphanClose(t)
    \/ \E t \in Threads : StrayExit(t)
    \/ \E i \in Instances : StartOffline(i)
    \/ \E i \in Instances : OfflineExit(i)
SpecLock == InitLock /\ [][NextLock]_vars

\* The same, with the scheduling the runtime and the kernel give: a check
\* that can go on does (its tool exits or its timeout expires), a closed
\* file is released, and a flock call that can be granted again and again
\* is granted.
\* The functions, each called on every input within the bounds.
InitFn == FnInit /\ WorkerIdle /\ UIInit /\ LockInit
NextFn ==
    \/ FnReturn
    \/ CallFlatTimeout
    \/ CallAurUpdateDue
    \/ CallCheckAurUpdatesOnline
    \/ CallCheckAurUpdatesOffline
    \/ CallCheckDevelUpdatesOnline
    \/ CallCheckDevelUpdatesOffline
    \/ CallCheckUpdates
    \/ CallGetAurPackages
    \/ CallGetDevelPackages
    \/ CallParseUrl
    \/ CallParseUpdate
    \/ CallAddSourcesToUpdates
SpecFn == InitFn /\ [][NextFn]_vars

SpecLockFair ==
    /\ InitLock
    /\ [][NextLock]_vars
    /\ \A t \in Threads : SF_vars(Grant(t))
    /\ \A t \in Threads : WF_vars(OrphanClose(t))
    /\ \A i \in Instances : WF_vars(Acquired(i) \/ TimeoutWaiting(i))
    /\ \A i \in Instances : WF_vars(ToolExit(i) \/ TimeoutRunning(i))

\* Instance A runs Online passes, instance B Online pacman checks of its own.
InitJoin == WorkerIdle /\ UIInit /\ LockInit /\ FnInit
NextJoin ==
    \/ JoinStart
    \/ \E s \in Sources : JoinCheck(s)
    \/ JoinDone
    \/ StartOnline("B")
    \/ \E t \in Threads : Grant(t)
    \/ \E i \in Instances : Acquired(i)
    \/ \E i \in Instances : ToolExit(i)
    \/ \E i \in Instances : TimeoutWaiting(i)
    \/ \E i \in Instances : TimeoutRunning(i)
    \/ \E t \in Threads : OrphanClose(t)
    \/ \E t \in Threads : StrayExit(t)
SpecJoin == InitJoin /\ [][NextJoin]_vars

\* The executor polls every future of the join that can go on; nothing is
\* assumed of the lock: instance B may hold it for ever.
SpecJoinFair ==
    /\ InitJoin
    /\ [][NextJoin]_vars
    /\ \A s \in {"aur", "devel"} : WF_vars(JoinCheck(s))

(***************************************************************************)
(* Properties of the UI-side history (SpecUI).                             *)
(***************************************************************************)
\* C1: for each source, once a success has been applied to its HistoryResult,
\* the state is never Error-without-history: it is Ok(v) or
\* ErrorWithHistory(v), where v is the value of the most recent success.
C1_history_kept ==
    \A s \in Sources :
        last_success[s].tag = "Some" =>
            \/ Hist(updates, s) = HOk(last_success[s].some)
            \/ Hist(updates, s) = HErrorWithHistory(last_success[s].some)

\* A failure has been applied after a success, and after it an Offline
\* message that had no result for the source.
C1_witness ==
    \E s \in Sources :
        /\ last_success[s] = Some(<<1>>)
        /\ Hist(updates, s) = HErrorWithHistory(<<1>>)
        /\ msg.type = "Offline"
        /\ msg.updates[s].tag = "None"

\* The table of the HistoryResult transition, as the specification states it.
TableApply(prior, result) ==
    IF result.tag = "Ok" THEN HOk(result.value)
    ELSE IF prior.tag = "Ok" THEN HErrorWithHistory(prior.value)
    ELSE prior

\* C9: on an Offline tick, for each source on its own, the Offline check
\* runs (the bundle has a result for it) exactly when the source's own cache is
\* present, whatever the other caches are; when it is absent the bundle has no
\* result and no error for it and its HistoryResult stays exactly as it was.
C9_offline_skip ==
    [][msg'.type = "Offline" =>
        \A s \in Sources :
            /\ msg'.updates[s].tag = "Some" <=> msg'.cache[s].tag = "Some"
            /\ msg'.cache[s].tag = "None" =>
                    /\ msg'.updates[s] = NoneOpt
                    /\ Hist(updates', s) = Hist(updates, s)]_vars

\* An Offline message was handled in which one source had no cache, kept its
\* Ok state, and another source's check ran and failed.
C9_witness ==
    /\ msg.type = "Offline"
    /\ updates.state = "Running"
    /\ \E s, r \in Sources :
        /\ msg.cache[s].tag = "None"
        /\ Hist(updates, s).tag = "Ok"
        /\ msg.cache[r].tag = "Some"
        /\ msg.updates[r] = Some(Err("Other"))
        /\ Hist(updates, r).tag = "ErrorWithHistory"

\* C10: the HistoryResult transition matches the table for every prior state
\* and every result: success(v) gives Ok(v) from Ok, Error and
\* ErrorWithHistory; failure gives ErrorWithHistory(v) from Ok(v), Error from
\* Error, and ErrorWithHistory(v) with v unchanged from ErrorWithHistory(v).
C10_transition_table ==
    [][updates.state = "Running" =>
        \A s \in Sources :
            /\ msg'.type = "Online" =>
                    Hist(updates', s) = TableApply(Hist(updates, s), msg'.updates[s])
            /\ (msg'.type = "Offline" /\ msg'.updates[s].tag = "Some") =>
                    Hist(updates', s) = TableApply(Hist(updates, s), msg'.updates[s].some)]_vars

\* A failure was applied to ErrorWithHistory(v) and left v in place, while
\* another source went from a failure to Ok.
C10_witness ==
    /\ msg.type = "Online"
    /\ bounce.tag = "None"
    /\ \E s, r \in Sources :
        /\ msg.updates[s].tag = "Err"
        /\ Hist(updates, s) = HErrorWithHistory(<<1>>)
        /\ msg.updates[r] = Ok(<<>>)
        /\ Hist(updates, r) = HOk(<<>>)

(***************************************************************************)
(* Properties of the updates worker (Spec).                                *)
(***************************************************************************)
\* a is a multiple of k, k > 0
IsMultiple(a, k) == a % k = 0

\* C2: with online_check_period = k and no force-refresh, tick n is Online
\* exactly when n - 1 is a multiple of k, and every other tick is Offline.
\* (ticks counts the ticks before the step, so it is n - 1.)
C2_every_kth_tick_online ==
    [][(ticks' = ticks + 1 /\ forces = 0 /\ online_check_period > 0) =>
        /\ pc' = "online" <=> IsMultiple(ticks, online_check_period)
        /\ pc' = "offline" <=> ~IsMultiple(ticks, online_check_period)]_vars

\* C3, as the specification states it: after a force-refresh has been
\* serviced, the next regular tick performs an Online check.
C3_next_tick_online ==
    [][(ticks' = ticks + 1 /\ last_branch = "forced") => pc' = "online"]_vars

\* C3, amended: after a force-refresh has been serviced, whatever the value
\* of the cycle counter was when it arrived, the counter is 1 and the next
\* regular tick performs an Offline check.
C3_next_tick_offline ==
    [][/\ last_branch' = "forced" => counter' = 1
       /\ (ticks' = ticks + 1 /\ last_branch = "forced") =>
            (pc' = "offline" /\ last_check' = "Offline")]_vars

\* A tick has followed a forced pass that was serviced when the counter was
\* at the end of a cycle of two, and it started an Offline pass.
C3_witness ==
    /\ last_branch = "tick_after_forced"
    /\ online_check_period = 2
    /\ pc = "offline"
    /\ ticks = 4

C5_cache_follows_own_check ==
    /\ (pc = "select" /\ last_check = "Online") =>
            \A s \in Sources :
                /\ cache_state[s].tag = "Some" <=> fut[s] = "ok"
                /\ cache_state[s].tag = "Some" => cache_state[s].some = passes
    /\ pc = "offline" =>
            \A s \in Sources : fut[s] # "none" => cache_state[s] = Some(passes)

(***************************************************************************)
(* Properties of the lock file (SpecLock, SpecLockFair).                   *)
(***************************************************************************)
\* C6: for any interleaving of two acquisition attempts on the lock file, at
\* no time do both hold the lock, and the second attempt completes only after
\* the first holder has released its lock.
C6_mutual_exclusion ==
    [][/\ Cardinality(holders') <= 1
       /\ \A t \in Threads : (t \in holders' /\ t \notin holders) => holders = {}]_vars

\* The second instance has obtained the lock that the first held and gave
\* back, after waiting for it.
C6_witness ==
    /\ thr[<<"A", 1>>] = "closed"
    /\ exit["A"] = "ok"
    /\ holders = {<<"B", 1>>}
    /\ task["B"] = "running"
    /\ attempts["A"] = 1

\* C7: whenever the guarded pacman Online check ends, the lock it took is
\* released, on each exit path: success, error, abandoned by the timeout while
\* the tool runs (released at once), abandoned by the timeout while flock still
\* waits (released once the pending flock call returns). In every case a
\* waiting acquirer eventually obtains the lock.
C7_released_on_every_exit ==
    /\ [](\A i \in Instances :
            (task[i] = "idle" /\ exit[i] \in {"ok", "err", "timeout_running"}) =>
                Cur(i) \notin holders)
    /\ \A t \in Threads : (t \in holders) ~> (t \notin holders)
    /\ \A t \in Threads : (thr[t] = "blocked") ~> (t \in holders)

\* A check was abandoned while it waited for the lock; its flock call was
\* granted later and the lock given back, and the other instance, which had
\* to wait, holds it now.
C7_witness ==
    /\ exit["A"] = "timeout_waiting"
    /\ thr[Cur("A")] = "closed"
    /\ task["B"] = "running"
    /\ Cur("B") \in holders
    /\ exit["B"] = "none"

\* C8: every pacman Online check runs checkupdates only while it holds the
\* lock, so no two instances run it in sync mode at the same time; the
\* Offline check never takes the lock and runs whoever holds it.
C8_tool_only_under_guard ==
    /\ \A t \in Threads : child[t] = "running" => t \in holders
    /\ Cardinality({t \in Threads : child[t] = "running"}) <= 1
    /\ \A i \in Instances : task[i] = "offline" => \A t \in holders : t[1] # i

(***************************************************************************)
(* Properties of force-refresh (Spec, SpecFair).                           *)
(***************************************************************************)
\* C11: every force-refresh request is eventually serviced by an
\* out-of-cycle Online pass over all three sources that is not counted as a
\* regular tick, also when the request arrives while a pass is in flight: the
\* request is not lost.
C11_force_refresh_serviced ==
    /\ unserviced ~> (pc = "forced" /\ last_branch = "forced")
    /\ [][unserviced /\ ~unserviced' =>
            /\ pc' = "forced"
            /\ ticks' = ticks
            /\ \A s \in Sources : fut'[s] = "pending"]_vars
    /\ [][pc # "select" /\ unserviced /\ pc' = "select" => notify' > 0]_vars

\* A request arrived while the Online pass of a regular tick was in flight,
\* and the forced pass that services it has begun after that pass.
C11_witness ==
    /\ pc = "forced"
    /\ ticks = 1
    /\ forces = 1
    /\ passes = 2
    /\ ~unserviced
    /\ \A s \in Sources : fut[s] = "pending"

C13_timeout_per_source ==
    [][(pc \in {"online", "offline"} /\ pc' = "select" /\ Cardinality(Pending) <= 1) =>
        /\ emitted'.type = "CheckUpdatesMsg"
        /\ \A s \in Sources : fut'[s] \in {"ok", "err", "timeout", "none"}]_vars

Pad(a, n) == [i \in 1..n |-> IF i <= Len(a) THEN a[i] ELSE 0]
MaxOf(x, y) == IF x > y THEN x ELSE y
SegmentsGreater(a, b) ==
    LET n == MaxOf(Len(a), Len(b)) IN
    \E i \in 1..n :
        /\ Pad(a, n)[i] > Pad(b, n)[i]
        /\ \A k \in 1..(i - 1) : Pad(a, n)[k] = Pad(b, n)[k]
SegmentsEqual(a, b) ==
    LET n == MaxOf(Len(a), Len(b)) IN Pad(a, n) = Pad(b, n)

\* C20: for every current and new (version, release) whose two versions
\* parse, aur_update_due is true exactly when the new version is greater by
\* numeric segment-wise ordering, or the versions are equal and the new
\* release is strictly greater than the current release.
C20_due_by_version_then_release ==
    (/\ call.fn = "aur_update_due"
     /\ Version_from(call.package.pkgver_cur) # NoneOpt
     /\ Version_from(call.package.pkgver_new) # NoneOpt) =>
        LET cur == Version_from(call.package.pkgver_cur).some
            new == Version_from(call.package.pkgver_new).some
        IN ret <=>
            \/ SegmentsGreater(new, cur)
            \/ /\ SegmentsEqual(new, cur)
               /\ parse_i32(call.package.pkgrel_new)
                    > parse_i32(call.package.pkgrel_cur)

\* C20, with the releases ordered as the strings they are: this is what the
\* function computes.
C20_due_by_version_then_release_string ==
    (/\ call.fn = "aur_update_due"
     /\ Version_from(call.package.pkgver_cur) # NoneOpt
     /\ Version_from(call.package.pkgver_new) # NoneOpt) =>
        LET cur == Version_from(call.package.pkgver_cur).some
            new == Version_from(call.package.pkgver_new).some
        IN ret <=>
            \/ SegmentsGreater(new, cur)
            \/ /\ SegmentsEqual(new, cur)
               /\ String_gt(call.package.pkgrel_new, call.package.pkgrel_cur)

\* The installed release is 2 and the new one 10, of the same version: the
\* function answers that no update is due.
C20_release_ten_not_due ==
    /\ call.fn = "aur_update_due"
    /\ call.package.pkgver_cur = <<"1">>
    /\ call.package.pkgver_new = <<"1">>
    /\ call.package.pkgrel_cur = <<"2">>
    /\ call.package.pkgrel_new = <<"1", "0">>
    /\ ret = FALSE

Range(seq) == {seq[i] : i \in 1..Len(seq)}
\* The installed packages an Offline call saw, and those of the Online call
\* whose cache it was given.
InstalledNow ==
    IF call.fn = "check_aur_updates_offline"
    THEN get_aur_packages(call.ignored, call.output)
    ELSE get_devel_packages(call.ignored, call.output)
InstalledAtOnline ==
    IF call.fn = "check_aur_updates_offline"
    THEN get_aur_packages(call.ignored, call.output_online)
    ELSE get_devel_packages(call.ignored, call.output_online)
OfflineCalled ==
    /\ call.fn \in {"check_aur_updates_offline", "check_devel_updates_offline"}
    /\ ret.tag = "Ok"
\* Package p is at what the cache holds as new for it: the version and
\* release of the AUR, or a build of the commit at the head of its sources.
AtCached(p) ==
    \A i \in 1..Len(call.cache) :
        call.cache[i].pkgname = p.pkgname =>
            IF call.fn = "check_aur_updates_offline"
            THEN /\ p.pkgver = call.cache[i].pkgver_new
                 /\ p.pkgrel = call.cache[i].pkgrel_new
            ELSE contains(p.pkgver, call.cache[i].ref_id_new)
\* Since the Online check, packages were only removed, installed anew, or
\* brought to what the cache holds for them.
OnlyUpdatedSince ==
    \A p \in Range(InstalledNow.value) :
        \/ p \in Range(InstalledAtOnline.value)
        \/ \A q \in Range(InstalledAtOnline.value) : q.pkgname # p.pkgname
        \/ AtCached(p)

C16_offline_equals_online_when_unchanged ==
    (OfflineCalled /\ call.output = call.output_online) =>
        ret.value = call.online

\* C16 without the order: the same records.
C16_same_records_when_unchanged ==
    (OfflineCalled /\ call.output = call.output_online) =>
        /\ Range(ret.value) = Range(call.online)
        /\ Len(ret.value) = Len(call.online)

\* The AUR answered for b before a, both are due, and pacman lists a before b.
C16_aur_answer_in_other_order ==
    /\ call.fn = "check_aur_updates_offline"
    /\ call.output = call.output_online
    /\ Len(call.online) = 2
    /\ call.online[1].pkgname = <<"b">>
    /\ ret.tag = "Ok"
    /\ Len(ret.value) = 2
    /\ ret.value[1].pkgname = <<"a">>

\* A record the call in progress parsed did not parse: a line of
\* checkupdates, a line of pacman -Qm that is not ignored, or the version of
\* an AUR record of an installed package.
QmRecordFails ==
    \E i \in 1..Len(call.output) :
        /\ ~\E k \in 1..Len(call.ignored) :
                contains(call.output[i], call.ignored[k])
        /\ parse_pacman_qm(call.output[i]).tag = "Err"
AurRecordFails ==
    /\ call.info.tag = "Ok"
    /\ get_aur_packages(call.ignored, call.output).tag = "Ok"
    /\ \E i \in 1..Len(call.info.value) :
        /\ \E p \in Range(get_aur_packages(call.ignored, call.output).value) :
                p.pkgname = call.info.value[i].name
        /\ parse_ver_and_rel(call.info.value[i].version).tag = "Err"
RecordFails ==
    CASE call.fn = "check_updates" ->
            \E i \in 1..Len(call.output) : parse_update(call.output[i]).tag = "Err"
      [] call.fn = "check_aur_updates_online" -> QmRecordFails \/ AurRecordFails
      [] call.fn \in {"check_aur_updates_offline", "check_devel_updates_online",
                      "check_devel_updates_offline"} -> QmRecordFails
      [] OTHER -> FALSE

\* C19: within one source's check, a single record that fails to parse makes
\* the whole check return an error, not a partial list, and the error is a
\* value the check returns, not a crash.
C19_parse_failure_fails_check ==
    RecordFails => ret.tag = "Err"

\* C19 for the records read from the local tools (checkupdates, pacman -Qm).
C19_local_parse_failure_fails_check ==
    (RecordFails /\ ~(call.fn = "check_aur_updates_online" /\ AurRecordFails))
        => ret.tag = "Err"

\* The AUR's record of an installed package has a version without a release,
\* and the Online check panics.
C19_aur_version_unwrap_panics ==
    /\ call.fn = "check_aur_updates_online"
    /\ AurRecordFails
    /\ ~QmRecordFails
    /\ ret = Panic

\* A pass is running.
InPass == pc \in {"online", "offline", "forced"}
\* A result bundle (a result or None for each of the three sources) or an
\* error string.
IsBundle(m) == m.type = "CheckUpdatesMsg" /\ DOMAIN m.updates = Sources
IsErrorString(m) == m.type = "CheckUpdatesErrorsMsg"
NoCache == \A s \in Sources : cache_state[s] = NoneOpt

\* C17: every pass the scheduler runs (a regular Online tick, an Offline tick
\* with at least one cache, a forced pass) emits exactly one message, a
\* result bundle or an error string, and an Offline tick on which no check
\* runs emits nothing.
C17_one_message_per_pass ==
    [][/\ (InPass /\ pc' = "select" /\ ~(pc = "offline" /\ NoCache)) =>
            (emitted = NoMsg /\ (IsBundle(emitted') \/ IsErrorString(emitted')))
       /\ (InPass /\ pc' # "select") => emitted' = NoMsg
       /\ (pc = "select" /\ pc' # "select") => emitted' = NoMsg
       /\ (pc = "offline" /\ NoCache /\ pc' = "select") => emitted' = NoMsg]_vars

\* C17 for the passes on which a check runs.
C17_one_message_per_pass_with_checks ==
    [][/\ (InPass /\ pc' = "select" /\ ~(pc = "offline" /\ NoCache)) =>
            (emitted = NoMsg /\ (IsBundle(emitted') \/ IsErrorString(emitted')))
       /\ (InPass /\ pc' # "select") => emitted' = NoMsg
       /\ (pc = "select" /\ pc' # "select") => emitted' = NoMsg]_vars

\* An Offline tick with no cache for any source has sent a bundle that holds
\* no result.
C17_empty_bundle_sent ==
    /\ pc = "select"
    /\ last_check = "Offline"
    /\ NoCache
    /\ IsBundle(emitted)
    /\ \A s \in Sources : emitted.updates[s] = NoneOpt

C21_unparsed_version_not_due ==
    (/\ call.fn = "aur_update_due"
     /\ \/ Version_from(call.package.pkgver_cur) = NoneOpt
        \/ Version_from(call.package.pkgver_new) = NoneOpt) =>
        ret = FALSE

\* The installed version is a commit hash, the new version parses and the
\* new release is greater: not due.
C21_witness ==
    /\ call.fn = "aur_update_due"
    /\ Version_from(call.package.pkgver_cur) = NoneOpt
    /\ Version_from(call.package.pkgver_new) # NoneOpt
    /\ String_gt(call.package.pkgrel_new, call.package.pkgrel_cur)
    /\ ret = FALSE

\* The packages an AUR Online call saw installed (ignored ones left out).
OnlineCalled == call.fn = "check_aur_updates_online" /\ ret.tag = "Ok"
OnlineInstalled == Range(get_aur_packages(call.ignored, call.output).value)
\* The record of installed package p and the AUR's answer r for it.
RecordOf(p, r) ==
    AurUpdate(p.pkgname, p.pkgver, p.pkgrel,
              rsplit_once(r.version, "-").some[1], rsplit_once(r.version, "-").some[2])

\* C23: the AUR Online check returns a cache with one record for every
\* installed foreign package the AUR answered for, due or not, and a due list
\* that is exactly the cache's records for which aur_update_due is true.
C23_cache_holds_all_answered ==
    OnlineCalled =>
        LET due == ret.value[1]
            cache == ret.value[2]
            answered == {<<p, r>> \in OnlineInstalled \X Range(call.info.value) :
                            p.pkgname = r.name}
        IN /\ Range(cache) = {RecordOf(pr[1], pr[2]) : pr \in answered}
           /\ Len(cache) = Cardinality(answered)
           /\ Range(due) = {c \in Range(cache) : aur_update_due(c)}
           /\ Len(due) = Cardinality(Range(due))

\* The AUR answered for two installed packages, one of them due.
C23_witness ==
    /\ OnlineCalled
    /\ Len(ret.value[2]) = 2
    /\ Len(ret.value[1]) = 1

\* C24: in the AUR Offline check an installed foreign package with no record
\* in the supplied cache is never reported due.
C24_uncached_never_due ==
    (call.fn = "check_aur_updates_offline" /\ ret.tag = "Ok") =>
        \A p \in Range(InstalledNow.value) :
            (\A c \in Range(call.cache) : c.pkgname # p.pkgname) =>
                \A u \in Range(ret.value) : u.pkgname # p.pkgname

\* Package b was installed after the Online check: the cache holds a only,
\* a is reported and b is not.
C24_witness ==
    /\ call.fn = "check_aur_updates_offline"
    /\ ret.tag = "Ok"
    /\ Len(InstalledNow.value) = 2
    /\ Len(call.cache) = 1
    /\ call.cache[1].pkgname = <<"a">>
    /\ Len(ret.value) = 1

\* The count of a source as the claims state it: the number of updates in the
\* value held, 0 when none is held.
CountOf(h) ==
    IF h.tag = "Ok" THEN Len(h.value)
    ELSE IF h.tag = "ErrorWithHistory" THEN Len(h.last_value)
    ELSE 0

\* C25: total_filtered(exclude) is the sum of the counts of the sources not
\* in exclude; it is 0 in Init and 0 when all three sources are excluded.
C25_total_is_sum_of_included ==
    \A exclude \in SUBSET Sources :
        /\ updates.state = "Running" =>
                total_filtered(updates, exclude) =
                    (IF "pacman" \in exclude THEN 0 ELSE CountOf(updates.pacman))
                    + (IF "aur" \in exclude THEN 0 ELSE CountOf(updates.aur))
                    + (IF "devel" \in exclude THEN 0 ELSE CountOf(updates.devel))
        /\ updates.state = "Init" => total_filtered(updates, exclude) = 0
        /\ exclude = Sources => total_filtered(updates, exclude) = 0

\* Pacman and AUR each have one update, pacman's kept from before an error;
\* with pacman excluded the total is the rest.
C25_witness ==
    /\ updates.state = "Running"
    /\ updates.pacman.tag = "ErrorWithHistory"
    /\ len(updates.pacman) = 1
    /\ len(updates.aur) = 1
    /\ total_filtered(updates, {"pacman"}) = 1 + len(updates.devel)
    /\ total_filtered(updates, {}) = 2 + len(updates.devel)

\* C26: a source's count is the number of updates in the held value when the
\* state is Ok or ErrorWithHistory and 0 when it is Error; the has-error flag
\* is false exactly when the state is Ok.
C26_count_and_error_flag ==
    /\ updates.state = "Running" =>
        \A s \in Sources :
            LET h == Hist(updates, s) IN
            /\ h.tag = "Ok" => len(h) = Len(h.value)
            /\ h.tag = "ErrorWithHistory" => len(h) = Len(h.last_value)
            /\ h.tag = "Error" => len(h) = 0
            /\ has_error(h) <=> h.tag # "Ok"
    /\ has_errors(updates) <=>
            (updates.state = "Running"
             /\ \E s \in Sources : has_error(Hist(updates, s)))

\* One source holds one update from before its error, one is in plain Error
\* and one is Ok.
C26_witness ==
    /\ updates.state = "Running"
    /\ updates.pacman.tag = "ErrorWithHistory"
    /\ len(updates.pacman) = 1
    /\ updates.aur.tag = "Error"
    /\ updates.devel.tag = "Ok"
    /\ has_errors(updates)

\* The repository the last line of pacman -Sl for the package names, as the
\* claim maps it: a known official repository, or Other with the name.
LastLineFor(pkgname) ==
    CHOOSE i \in 1..Len(call.output) :
        /\ split(call.output[i], {" "})[2] = pkgname
        /\ \A k \in (i + 1)..Len(call.output) :
                split(call.output[k], {" "})[2] # pkgname
RepoNamed(text) ==
    IF text = <<"c", "o", "r", "e">> THEN [repo |-> "Core"]
    ELSE IF text = <<"e", "x", "t", "r", "a">> THEN [repo |-> "Extra"]
    ELSE [repo |-> "Other", name |-> text]

Fields == split(call.value, {" "})
HasHyphen(s) == \E i \in 1..Len(s) : s[i] = "-"
\* The pair is the text split at its last hyphen.
SplitAtLastHyphen(text, ver, rel) ==
    /\ text = ver \o <<"-">> \o rel
    /\ ~HasHyphen(rel)
WellFormedUpdate ==
    /\ Len(Fields) = 4
    /\ HasHyphen(Fields[2])
    /\ Fields[3] = <<"-", ">">>
    /\ HasHyphen(Fields[4])
ReturnsSplitUpdate ==
    /\ ret.tag = "Ok"
    /\ ret.value.pkgname = Fields[1]
    /\ SplitAtLastHyphen(Fields[2], ret.value.pkgver_cur, ret.value.pkgrel_cur)
    /\ SplitAtLastHyphen(Fields[4], ret.value.pkgver_new, ret.value.pkgrel_new)

\* C30: parse_update on "name curver-currel -> newver-newrel" returns the
\* name and the four fields, each pair split at its last hyphen; a line with
\* no fourth space-separated field is rejected with ParseErrorCheckUpdates
\* carrying the whole line.
C30_update_line_parsed_or_rejected ==
    call.fn = "parse_update" =>
        /\ WellFormedUpdate => ReturnsSplitUpdate
        /\ Len(Fields) < 4 =>
                ret = Err(ParseError("ParseErrorCheckUpdates", call.value))

\* C30, amended: a line with no fourth field is rejected with
\* ParseErrorCheckUpdates carrying the whole line when its second field is
\* missing or holds a hyphen; when the second field holds no hyphen the line
\* is rejected with ParseErrorPkgverPkgrel carrying that field.
C30_update_line_parsed_or_rejected_by_first_failure ==
    call.fn = "parse_update" =>
        /\ WellFormedUpdate => ReturnsSplitUpdate
        /\ Len(Fields) < 4 =>
                IF Len(Fields) >= 2 /\ ~HasHyphen(Fields[2])
                THEN ret = Err(ParseError("ParseErrorPkgverPkgrel", Fields[2]))
                ELSE ret = Err(ParseError("ParseErrorCheckUpdates", call.value))

\* An update with an epoch and a hyphen inside its version was split at the
\* last hyphen.
C30_witness ==
    /\ call.fn = "parse_update"
    /\ WellFormedUpdate
    /\ ret.tag = "Ok"
    /\ HasHyphen(ret.value.pkgver_cur)
    /\ ret.value.pkgver_cur[2] = ":"

\* A line that stops after the installed version was rejected with the line.
C30_short_line_rejected ==
    /\ call.fn = "parse_update"
    /\ Len(Fields) = 2
    /\ ret = Err(ParseError("ParseErrorCheckUpdates", call.value))

\* The file name of a source field is what comes before its first "::".
FilenameEndsAtFirstColons ==
    call.parts.filename # NoneOpt \/ ~contains(call.parts.rest, <<":", ":">>)
\* The URL part starts with git and holds "://".
GitUrl ==
    /\ FilenameEndsAtFirstColons
    /\ starts_with(call.parts.scheme, <<"g", "i", "t">>)
    /\ call.parts.sep = <<":", "/", "/">>
PinnedFragment ==
    /\ call.parts.fragment # NoneOpt
    /\ call.parts.fragment.some.type \in {<<"c", "o", "m", "m", "i", "t">>, <<"t", "a", "g">>}

\* C28: parse_url returns no result for every source whose URL part (after
\* an optional filename:: prefix) does not start with git or does not hold
\* "://", and for every source whose fragment has type commit or tag.
C28_no_result_for_other_or_pinned_sources ==
    call.fn = "parse_url" /\ (~GitUrl \/ PinnedFragment) => ret = NoneOpt

\* A git source pinned to a tag gave no result.
C28_witness ==
    /\ call.fn = "parse_url"
    /\ GitUrl
    /\ call.parts.fragment # NoneOpt
    /\ call.parts.fragment.some.type = <<"t", "a", "g">>
    /\ ret = NoneOpt

\* A source without "://" gave no result.
C28_no_separator_no_result ==
    /\ call.fn = "parse_url"
    /\ call.parts.sep # <<":", "/", "/">>
    /\ starts_with(call.parts.scheme, <<"g", "i", "t">>)
    /\ call.parts.fragment = NoneOpt
    /\ ret = NoneOpt

\* The source has the form [filename::]git+PROTO://REST[?query][#...].
GitPlusUrl ==
    /\ GitUrl
    /\ starts_with(call.parts.scheme, <<"g", "i", "t", "+">>)
PROTO == SubSeq(call.parts.scheme, 5, Len(call.parts.scheme))

\* C29: for a source [filename::]git+PROTO://REST[?query][#branch=B],
\* parse_url returns protocol PROTO, remote PROTO://REST without the query
\* and the fragment, and branch B; with no fragment, or a fragment of a type
\* other than branch, commit or tag, the same remote and protocol and no
\* branch.
C29_protocol_remote_branch ==
    call.fn = "parse_url" /\ GitPlusUrl =>
        LET remote == PROTO \o <<":", "/", "/">> \o call.parts.rest
            fragment == call.parts.fragment
        IN /\ (fragment # NoneOpt /\ fragment.some.type = <<"b", "r", "a", "n", "c", "h">>
                /\ fragment.some.value # NoneOpt)
                => ret = Some(PackageUrl(remote, PROTO, fragment.some.value))
           /\ (fragment = NoneOpt
                \/ fragment.some.type \notin {<<"b", "r", "a", "n", "c", "h">>, <<"c", "o", "m", "m", "i", "t">>, <<"t", "a", "g">>})
                => ret = Some(PackageUrl(remote, PROTO, NoneOpt))

\* A source with a file name, a query and a branch fragment was parsed.
C29_witness ==
    /\ call.fn = "parse_url"
    /\ GitPlusUrl
    /\ call.parts.filename # NoneOpt
    /\ call.parts.query # NoneOpt
    /\ ret = Some(PackageUrl(<<"s", "s", "h", ":", "/", "/", "h", "/", "r">>, <<"s", "s", "h">>, Some(<<"m">>)))

\* The devel packages pacman -Qm lists, and the records of the cache and of
\* the due list an Online devel check returned.
DevelInstalled == get_devel_packages(call.ignored, call.output).value
DevelCache == ret.value[2]
DevelDue == ret.value[1]
ParseableUrls(pkgname) ==
    SelectSeq(call.srcinfo[pkgname].value,
              LAMBDA url : parse_url(url.source) # NoneOpt)
RecordsOf(records, pkgname) ==
    SelectSeq(records, LAMBDA r : r.pkgname = pkgname)
NonMatch(r) == ~contains(r.pkgver_cur, r.ref_id_new)

\* C22: the devel Online check gives one record per parseable source URL of
\* each devel package; a record is in the due list exactly when the local
\* version does not contain the record's 7-character ref id; so a package
\* with several source URLs is due as soon as one of its records is a
\* non-match.
C22_record_per_url_due_when_no_match ==
    call.fn = "check_devel_updates_online" /\ ret.tag = "Ok" =>
        /\ \A i \in 1..Len(DevelInstalled) :
            LET package == DevelInstalled[i]
                records == RecordsOf(DevelCache, package.pkgname)
            IN /\ Len(records) = Len(ParseableUrls(package.pkgname))
               /\ \A j \in 1..Len(records) :
                    /\ records[j].pkgver_cur = package.pkgver
                    /\ Len(records[j].ref_id_new) = 7
                    /\ records[j].ref_id_new = SubSeq(
                            ParseableUrls(package.pkgname)[j].stdout, 1, 7)
               /\ (\E j \in 1..Len(records) : NonMatch(records[j]))
                    => RecordsOf(DevelDue, package.pkgname) # <<>>
        /\ \A r \in Range(DevelCache) :
                (\E i \in 1..Len(DevelInstalled) :
                    DevelInstalled[i].pkgname = r.pkgname)
        /\ DevelDue = SelectSeq(DevelCache, NonMatch)

\* A package with two git sources, built at the head of one of them: two
\* records, and the one of the other source is due.
C22_witness ==
    /\ call.fn = "check_devel_updates_online"
    /\ ret.tag = "Ok"
    /\ \E i \in 1..Len(DevelInstalled) :
        /\ Len(RecordsOf(DevelCache, DevelInstalled[i].pkgname)) = 2
        /\ Len(RecordsOf(DevelDue, DevelInstalled[i].pkgname)) = 1

\* A source that is not a git source left no record.
C22_plain_source_no_record ==
    /\ call.fn = "check_devel_updates_online"
    /\ ret.tag = "Ok"
    /\ \E i \in 1..Len(DevelInstalled) :
        LET pkgname == DevelInstalled[i].pkgname
        IN /\ Len(call.srcinfo[pkgname].value) = 2
           /\ Len(RecordsOf(DevelCache, pkgname)) = 1

\* The name a line of pacman -Qm starts with, and the lines whose name is
\* none of the ignored names.
NameOf(line) == split(line, {" "})[1]
EndsWith(s, suffix) ==
    Len(suffix) <= Len(s) /\ SubSeq(s, Len(s) - Len(suffix) + 1, Len(s)) = suffix
NotIgnoredLines ==
    SelectSeq(call.output, LAMBDA line : NameOf(line) \notin Range(call.ignored))

\* C33: a foreign package is treated as a devel package exactly when its name
\* ends with a devel suffix (-git); a name that holds the suffix elsewhere
\* (a-git-b) is not a devel package.
C33_devel_when_name_ends_with_suffix ==
    call.fn = "get_devel_packages" /\ ret.tag = "Ok" =>
        [i \in 1..Len(ret.value) |-> ret.value[i].pkgname] =
            [i \in 1..Len(SelectSeq(NotIgnoredLines, LAMBDA line :
                        EndsWith(NameOf(line), <<"-", "g", "i", "t">>))) |->
                NameOf(SelectSeq(NotIgnoredLines, LAMBDA line :
                        EndsWith(NameOf(line), <<"-", "g", "i", "t">>))[i])]

\* The package a-git-b was listed as a devel package.
C33_suffix_inside_name_listed ==
    /\ call.fn = "get_devel_packages"
    /\ call.ignored = <<>>
    /\ ret.tag = "Ok"
    /\ \E i \in 1..Len(ret.value) : ret.value[i].pkgname = <<"a", "-", "g", "i", "t", "-", "b">>

\* With the ignored names left aside, the devel packages are the packages
\* whose name ends with the suffix or holds it elsewhere.
C33_devel_when_name_contains_suffix ==
    call.fn = "get_devel_packages" /\ call.ignored = <<>> /\ ret.tag = "Ok" =>
        /\ \A i \in 1..Len(call.output) :
                EndsWith(NameOf(call.output[i]), <<"-", "g", "i", "t">>)
                    => \E k \in 1..Len(ret.value) :
                            ret.value[k].pkgname = NameOf(call.output[i])
        /\ \A k \in 1..Len(ret.value) : contains(ret.value[k].pkgname, <<"-", "g", "i", "t">>)

\* C34: the foreign packages are the listing of pacman -Qm minus exactly the
\* packages whose name equals an ignored name; a package whose name or
\* version only holds an ignored name as a substring is still listed.
C34_listing_minus_ignored_names ==
    call.fn = "get_aur_packages" /\ ret.tag = "Ok" =>
        [i \in 1..Len(ret.value) |-> ret.value[i].pkgname] =
            [i \in 1..Len(NotIgnoredLines) |-> NameOf(NotIgnoredLines[i])]

\* With b ignored, package ab and package a at version 1.b were left out.
C34_substring_of_line_left_out ==
    /\ call.fn = "get_aur_packages"
    /\ call.ignored = <<<<"b">>>>
    /\ call.output = <<<<"a", "b", " ", "1", "-", "1">>, <<"a", " ", "1", ".", "b", "-", "1">>>>
    /\ ret = Ok(<<>>)

\* The packages whose name equals an ignored name are never listed, and
\* with nothing ignored the listing is whole.
C34_ignored_names_left_out ==
    call.fn = "get_aur_packages" /\ ret.tag = "Ok" =>
        /\ \A i \in 1..Len(ret.value) :
                ret.value[i].pkgname \notin Range(call.ignored)
        /\ call.ignored = <<>> => Len(ret.value) = Len(call.output)

\* C39: when the two versions are equal, aur_update_due orders the releases
\* as numbers: from release 9 to release 10 the update is due, from release
\* 10 to release 9 it is not.
C39_releases_ordered_as_numbers ==
    (/\ call.fn = "aur_update_due"
     /\ call.package.pkgver_cur = call.package.pkgver_new
     /\ Version_from(call.package.pkgver_cur) # NoneOpt) =>
        (ret <=> parse_i32(call.package.pkgrel_new)
                    > parse_i32(call.package.pkgrel_cur))

\* From release 9 to release 10 of the same version: not due.
C39_nine_to_ten_not_due ==
    /\ call.fn = "aur_update_due"
    /\ call.package.pkgver_cur = <<"1">>
    /\ call.package.pkgver_new = <<"1">>
    /\ call.package.pkgrel_cur = <<"9">>
    /\ call.package.pkgrel_new = <<"1", "0">>
    /\ ret = FALSE

\* From release 10 to release 9 of the same version: due.
C39_ten_to_nine_due ==
    /\ call.fn = "aur_update_due"
    /\ call.package.pkgver_cur = <<"1">>
    /\ call.package.pkgver_new = <<"1">>
    /\ call.package.pkgrel_cur = <<"1", "0">>
    /\ call.package.pkgrel_new = <<"9">>
    /\ ret = TRUE

\* Between releases of the same number of digits the order is the one of
\* the numbers.
C39_same_length_releases_ordered_as_numbers ==
    (/\ call.fn = "aur_update_due"
     /\ call.package.pkgver_cur = call.package.pkgver_new
     /\ Version_from(call.package.pkgver_cur) # NoneOpt
     /\ Len(call.package.pkgrel_cur) = Len(call.package.pkgrel_new)) =>
        (ret <=> parse_i32(call.package.pkgrel_new)
                    > parse_i32(call.package.pkgrel_cur))

\* The Online devel check asked git ls-remote about a source of the i-th
\* devel package and got fewer than 7 characters. The packages are taken in
\* turn, so the sources of a package are asked about once the packages
\* before it have given their records.
ShortAnswerAt(i) ==
    /\ \A k \in 1..i : call.srcinfo[DevelInstalled[k].pkgname].tag = "Ok"
    /\ \A k \in 1..(i - 1) :
            \A url \in Range(ParseableUrls(DevelInstalled[k].pkgname)) :
                Len(url.stdout) >= 7
    /\ \E url \in Range(ParseableUrls(DevelInstalled[i].pkgname)) :
            Len(url.stdout) < 7

C40_panic_before_query ==
    /\ call.fn = "check_devel_updates_online"
    /\ Len(DevelInstalled) = 2
    /\ call.srcinfo[DevelInstalled[1].pkgname].tag = "Err"
    /\ call.srcinfo[DevelInstalled[2].pkgname] # Ok(<<>>)
    /\ \A url \in Range(ParseableUrls(DevelInstalled[2].pkgname)) :
            Len(url.stdout) < 7
    /\ ret = Panic

\* C35: handling an Offline result never changes last_checked_online or the
\* refreshing flag, and in Init it leaves the state Init; only the three
\* HistoryResults can change.
C35_offline_changes_histories_only ==
    [][msg'.type = "Offline" =>
        IF updates.state = "Init"
        THEN updates' = UpdatesInit
        ELSE /\ updates'.state = "Running"
             /\ updates'.last_checked_online = updates.last_checked_online
             /\ updates'.refreshing = updates.refreshing
             /\ DOMAIN updates' = DOMAIN updates]_vars

\* An Offline result with a failure was handled while refreshing, after an
\* Online result at time 1: the source keeps its history, the flag and the
\* time stay.
C35_witness ==
    /\ msg.type = "Offline"
    /\ updates.state = "Running"
    /\ updates.refreshing
    /\ updates.last_checked_online = 1
    /\ \E s \in Sources :
        /\ msg.updates[s] = Some(Err("Other"))
        /\ Hist(updates, s).tag = "ErrorWithHistory"

\* C36: after set_refreshing in Running, get_refreshing stays true across
\* Offline results until the next Online result is handled, which sets it to
\* false and last_checked_online to that result's time; in Init,
\* set_refreshing leaves the state Init and get_refreshing is true.
C36_refreshing_until_next_online ==
    [][/\ msg'.type = "SetRefreshing" =>
            /\ get_refreshing(updates')
            /\ updates.state = "Init" => updates' = UpdatesInit
            /\ updates.state = "Running" => updates'.state = "Running"
       /\ (msg'.type = "Offline" /\ get_refreshing(updates)) =>
            get_refreshing(updates')
       /\ msg'.type = "Online" =>
            /\ ~get_refreshing(updates')
            /\ updates'.last_checked_online = msg'.time]_vars

\* Every source is up to date with no cache left, and an Offline result was
\* handled after set_refreshing: still refreshing.
C36_witness ==
    /\ msg.type = "Offline"
    /\ updates.state = "Running"
    /\ \A s \in Sources : msg.updates[s] = NoneOpt /\ Hist(updates, s) = HOk(<<>>)
    /\ get_refreshing(updates)

C38_counter_within_period ==
    counter \in 0..online_check_period

\* The period is 0 and a force-refresh has been serviced: the counter is 1.
C38_counter_above_period_zero ==
    /\ online_check_period = 0
    /\ last_branch = "forced"
    /\ counter = 1

\* With a period of 1 or more the counter stays within the period.
C38_counter_within_positive_period ==
    online_check_period >= 1 => counter \in 0..online_check_period

\* The pacman check of instance A's pass waits for the lock file, which
\* another instance holds.
BlockedOnLock ==
    /\ pc = "online"
    /\ task["A"] = "waiting"
    /\ thr[Cur("A")] = "blocked"
    /\ \E t \in holders : t[1] = "B"
OthersEnded == fut["aur"] # "pending" /\ fut["devel"] # "pending"

C32_passes_never_overlap ==
    [][/\ (pc' \in {"online", "offline", "forced"} /\ pc' # pc) =>
            /\ pc = "select"
            /\ Pending = {}
            /\ last_branch # "none" => emitted # NoMsg
       /\ pc \in {"online", "offline", "forced"} =>
            /\ ticks' = ticks
            /\ passes' = passes
            /\ notify' >= notify
            /\ last_branch' = last_branch
            /\ pc' \in {pc, "select"}
            /\ pc' = "select" => emitted' # NoMsg]_vars

\* A force-refresh was requested while the pass of a regular tick has checks
\* in flight: the request waits.
C32_witness ==
    /\ pc \in {"online", "offline"}
    /\ Pending # {}
    /\ notify = 1
    /\ unserviced
    /\ emitted = NoMsg

====
